---- MODULE Spec2Model ----
(***************************************************************************)
(* Model of the crop advisory dashboard:                                   *)
(*   - CropPrediction.tsx  (dataset-based predictor and its scorers)       *)
(*   - FertilizerRecommendation.tsx (fertilizer plan)                      *)
(*   - ProfitCalculator.tsx (profit analysis)                              *)
(*   - part_000 (MarketTrends: market ranking and its loading)             *)
(*   - part_001 (rule-based CropPrediction embedding the fertilizer plan)  *)
(*   - WeatherForecast.tsx (mock forecast and farming alerts)              *)
(*   - Navigation.tsx, HomePage.tsx (navigation bar, Index page switch)    *)
(*                                                                         *)
(* Numbers.  Every quantity a form field or a dataset column holds is a    *)
(* decimal with one fractional digit and is stored here multiplied by 10   *)
(* (temperature 25 is 250, pH 6.5 is 65).  Values produced by Math.round   *)
(* (yield index, profitability index, fertilizer amounts) are plain        *)
(* integers.  Arithmetic is exact: the binary representation error of      *)
(* IEEE-754 doubles is not modelled, so where the exact value of an        *)
(* expression lies precisely half way between two integers the program     *)
(* may return the lower neighbour although MathRound returns the upper     *)
(* one (100 * 1.1 * 1.15 is 126.49999999999999 in doubles).  Statements    *)
(* about rounding are therefore written as "a nearest integer".            *)
(***************************************************************************)
EXTENDS Integers, Sequences, FiniteSets, TLC

VARIABLES
    soilData,      \* CropPrediction: useState<SoilData>
    loading,       \* CropPrediction: useState(false)
    prediction,    \* CropPrediction: useState<PredictionResult | null>
    predictRun,    \* the predictCrop call in flight: its position and closure
    toasts,        \* notifications emitted by CropPrediction, oldest first
    edits,         \* number of handleInputChange calls so far (bounded)
    fn,            \* function applied last by a direct call
    args,          \* its arguments
    ret,           \* its result
    advSoilData,   \* rule-based CropPrediction (part_001): useState<SoilData>
    advLoading,    \* part_001: useState(false)
    advPrediction, \* part_001: useState<PredictionResult | null>
    advRun,        \* part_001: the predictCrop call in flight and its closure
    advToasts,     \* part_001: notifications, oldest first
    advEdits,      \* handleInputChange calls in part_001 and its child (bounded)
    advPredictedFrom,    \* history: the profile the stored prediction was computed from
    fertSoilData,        \* embedded FertilizerRecommendation: useState<FertilizerData>
    fertLoading,         \* FertilizerRecommendation: useState(false)
    fertRecommendations, \* FertilizerRecommendation: useState([])
    fertRuns,            \* generateRecommendations calls in flight, oldest first
    fertToasts,          \* FertilizerRecommendation: notifications, oldest first
    mktLoading,    \* MarketTrends (part_000): useState(false)
    marketPrices,  \* MarketTrends: useState<MarketPrice[]>([])
    profitability, \* MarketTrends: useState<CropProfitability[]>([])
    mktRun,        \* MarketTrends: the loadMarketData call in flight
    mktToasts,     \* MarketTrends: notifications, oldest first
    mktLoads,      \* loadMarketData calls so far (bounded)
    profInputs,    \* ProfitCalculator: useState<CropInputs>
    profLoading,   \* ProfitCalculator: useState(false)
    profAnalysis,  \* ProfitCalculator: useState<ProfitAnalysis | null>
    profRun,       \* ProfitCalculator: the calculateProfit call in flight and its closure
    profToasts,    \* ProfitCalculator: notifications, oldest first
    profEdits,     \* form changes in ProfitCalculator so far (bounded)
    wxLocation,    \* WeatherForecast: useState('')
    wxLoading,     \* WeatherForecast: useState(false)
    wxForecast,    \* WeatherForecast: useState<WeatherData[]>([])
    wxAlerts,      \* WeatherForecast: useState<FarmingAlert[]>([])
    wxRun,         \* WeatherForecast: the fetchForecast call in flight and its closure
    wxToasts,      \* WeatherForecast: notifications, oldest first
    wxEdits,       \* setLocation calls so far (bounded)
    activeTab,     \* Index: useState('home')
    tabHistory,    \* history: the ids handed to handleTabChange, oldest first
    page           \* the page a behaviour of SpecPages stays on

cropVars == <<soilData, loading, prediction, predictRun, toasts, edits>>
callVars == <<fn, args, ret>>
advisorVars ==
    <<advSoilData, advLoading, advPrediction, advRun, advToasts, advEdits,
      advPredictedFrom, fertSoilData, fertLoading, fertRecommendations, fertRuns,
      fertToasts>>
marketVars == <<mktLoading, marketPrices, profitability, mktRun, mktToasts, mktLoads>>
profitVars == <<profInputs, profLoading, profAnalysis, profRun, profToasts, profEdits>>
weatherVars == <<wxLocation, wxLoading, wxForecast, wxAlerts, wxRun, wxToasts, wxEdits>>
tabVars == <<activeTab, tabHistory>>

vars ==
    <<cropVars, callVars, advisorVars, marketVars, profitVars, weatherVars, tabVars,
      page>>

----------------------------------------------------------------------------
(* Bounds of the model *)

MaxDataset == 3      \* longest crop_dataset answer handed to predictCropWithML
MaxEdits == 1        \* handleInputChange calls per behaviour
MaxToasts == 2       \* predictCrop runs per behaviour (one toast each)
MaxPlans == 2        \* generateRecommendations runs started before the button is left alone
MaxLoads == 3        \* loadMarketData calls per behaviour
MaxAnswer == 2       \* longest market_prices answer in the MarketTrends run
MaxPrices == 5
MaxTabChanges == 3   \* tab selections in a behaviour of the page switch       \* longest market_prices answer handed to analyzeProfitability

----------------------------------------------------------------------------
(* JavaScript helpers *)

\* Math.round on the exact quotient n / d (d > 0): floor(n/d + 1/2)
MathRound(n, d) == (2 * n + d) \div (2 * d)

Null == "<null>"

\* String.prototype.toLowerCase on the labels the model uses
toLowerCase(s) ==
    CASE s \in {"rice", "Rice", "RICE"} -> "rice"
      [] s \in {"wheat", "Wheat", "WHEAT"} -> "wheat"
      [] s \in {"maize", "Maize", "MAIZE"} -> "maize"
      [] s \in {"cotton", "Cotton", "COTTON"} -> "cotton"
      [] s \in {"jute", "Jute"} -> "jute"
      [] s = "Corn" -> "corn"
      [] s = "Soybeans" -> "soybeans"
      [] s = "Barley" -> "barley"
      [] s = "Mixed Crops" -> "mixed crops"
      [] OTHER -> s

\* cropName.charAt(0).toUpperCase() + cropName.slice(1)
Capitalize(s) ==
    CASE s \in {"rice", "Rice"} -> "Rice"
      [] s \in {"wheat", "Wheat"} -> "Wheat"
      [] s \in {"maize", "Maize"} -> "Maize"
      [] s \in {"cotton", "Cotton"} -> "Cotton"
      [] s \in {"jute", "Jute"} -> "Jute"
      [] OTHER -> s

----------------------------------------------------------------------------
(* CropPrediction.tsx: the classifier *)

SoilFields ==
    {"temperature", "humidity", "ph", "rainfall", "nitrogen", "phosphorus", "potassium"}

\* useState<SoilData>({...}) initial value, in tenths
InitialSoilData ==
    [temperature |-> 250, humidity |-> 650, ph |-> 65, rainfall |-> 1200,
     nitrogen |-> 400, phosphorus |-> 250, potassium |-> 300]

Sq(x) == x * x

distance2Mutant(data, crop) ==
    Sq(data.temperature - crop.temperature) +
    Sq(data.humidity - crop.humidity) +
    Sq(data.ph - crop.ph) +
    Sq(data.nitrogen - crop.nitrogen) +
    Sq(data.phosphorus - crop.phosphorus) +
    Sq(data.potassium - crop.potassium)
\* The argument of Math.sqrt, in hundredths: Math.sqrt is strictly increasing on
\* these values, so distances compare as their squares do.
distance2(data, crop) ==
    Sq(data.temperature - crop.temperature) +
    Sq(data.humidity - crop.humidity) +
    Sq(data.ph - crop.ph) +
    Sq(data.rainfall - crop.rainfall) +
    Sq(data.nitrogen - crop.nitrogen) +
    Sq(data.phosphorus - crop.phosphorus) +
    Sq(data.potassium - crop.potassium)

\* let minDistance = Infinity
Infinity == -1

\* distance < minDistance
closerMutant(distance, minDistance) == minDistance = Infinity \/ distance <= minDistance
closer(distance, minDistance) == minDistance = Infinity \/ distance < minDistance

\* cropDataset.forEach(crop => {...}) from record i on; acc holds the two locals
RECURSIVE forEachCrop(_, _, _, _)
forEachCrop(data, cropDataset, i, acc) ==
    IF i > Len(cropDataset) THEN acc
    ELSE LET distance == distance2(data, cropDataset[i])
         IN forEachCrop(data, cropDataset, i + 1,
                IF closer(distance, acc.minDistance)
                THEN [minDistance |-> distance, bestMatch |-> cropDataset[i]]
                ELSE acc)

\* The catch branch of predictCropWithML: rule-based prediction
fallbackMutant(data) ==
    IF data.temperature > 300 /\ data.humidity > 700 /\ data.rainfall > 1500 THEN "rice"
    ELSE IF data.nitrogen > 500 /\ data.phosphorus > 300 /\ data.potassium > 400 THEN "wheat"
    ELSE IF data.ph > 60 /\ data.ph < 70 /\ data.potassium > 350 THEN "maize"
    ELSE "cotton"
fallback(data) ==
    IF data.nitrogen > 500 /\ data.phosphorus > 300 /\ data.potassium > 400 THEN "wheat"
    ELSE IF data.temperature > 300 /\ data.humidity > 700 /\ data.rainfall > 1500 THEN "rice"
    ELSE IF data.ph > 60 /\ data.ph < 70 /\ data.potassium > 350 THEN "maize"
    ELSE "cotton"

\* What `await supabase.from('crop_dataset').select('*')` resolves to:
\* {data, error}, data being null or the list of rows.
FetchError == [error |-> TRUE, hasData |-> FALSE, data |-> <<>>]
FetchNull == [error |-> FALSE, hasData |-> FALSE, data |-> <<>>]
FetchRows(rows) == [error |-> FALSE, hasData |-> TRUE, data |-> rows]

\* The try block throws: the explicit throw, or bestMatch.crop_label on the
\* undefined cropDataset[0] of an empty list
mlThrows(res) == res.error \/ ~res.hasData \/ Len(res.data) = 0

predictCropWithML(data, res) ==
    IF mlThrows(res) THEN fallback(data)
    ELSE forEachCrop(data, res.data, 1,
             [minDistance |-> Infinity, bestMatch |-> res.data[1]]).bestMatch.crop_label

----------------------------------------------------------------------------
(* CropPrediction.tsx: the scorers *)

riskScorePhMutant(data) ==
    (IF (data.ph < 55 /\ data.ph >= 50) \/ data.ph > 85 THEN 2 ELSE 0) +
    (IF data.temperature > 350 \/ data.temperature < 100 THEN 2 ELSE 0) +
    (IF data.humidity < 300 \/ data.humidity > 900 THEN 1 ELSE 0) +
    (IF data.rainfall < 500 \/ data.rainfall > 3000 THEN 1 ELSE 0)
riskScoreMutant(data) ==
    (IF data.ph < 55 \/ data.ph > 85 THEN 2 ELSE 0) +
    (IF data.temperature > 350 \/ data.temperature < 100 THEN 2 ELSE 0) +
    (IF data.humidity < 300 \/ data.humidity > 900 THEN 1 ELSE 0) +
    (IF data.rainfall < 50 \/ data.rainfall > 3000 THEN 1 ELSE 0)
riskScore(data) ==
    (IF data.ph < 55 \/ data.ph > 85 THEN 2 ELSE 0) +
    (IF data.temperature > 350 \/ data.temperature < 100 THEN 2 ELSE 0) +
    (IF data.humidity < 300 \/ data.humidity > 900 THEN 1 ELSE 0) +
    (IF data.rainfall < 500 \/ data.rainfall > 3000 THEN 1 ELSE 0)

calculateRiskLevel(data) ==
    LET s == riskScore(data)
    IN IF s >= 4 THEN "high" ELSE IF s >= 2 THEN "medium" ELSE "low"

\* modifier *= c, c given in hundredths; the modifier is kept as a fraction
Times(m, c) == [num |-> m.num * c, den |-> m.den * 100]
TimesIf(cond, m, c) == IF cond THEN Times(m, c) ELSE m

\* switch (cropName.toLowerCase()) {...}
cropModifierMutant(data, crop) ==
    LET one == [num |-> 1, den |-> 1]
        t == data.temperature
    IN CASE crop = "rice" ->
              IF t >= 200 /\ t <= 350 /\ data.humidity > 600
              THEN TimesIf(data.rainfall > 1500, Times(one, 130), 120)
              ELSE one
         [] crop = "wheat" ->
              TimesIf(data.nitrogen > 400, TimesIf(t >= 150 /\ t <= 250, one, 125), 115)
         [] crop = "maize" ->
              TimesIf(data.phosphorus > 250, TimesIf(t >= 180 /\ t <= 320, one, 120), 110)
         [] crop = "cotton" ->
              TimesIf(data.potassium > 300, TimesIf(t >= 250 /\ t <= 350, one, 115), 110)
         [] OTHER -> one
cropModifier(data, crop) ==
    LET one == [num |-> 1, den |-> 1]
        t == data.temperature
    IN CASE crop = "rice" ->
              TimesIf(data.rainfall > 1500,
                      TimesIf(t >= 200 /\ t <= 350 /\ data.humidity > 600, one, 130), 120)
         [] crop = "wheat" ->
              TimesIf(data.nitrogen > 400, TimesIf(t >= 150 /\ t <= 250, one, 125), 115)
         [] crop = "maize" ->
              TimesIf(data.phosphorus > 250, TimesIf(t >= 180 /\ t <= 320, one, 120), 110)
         [] crop = "cotton" ->
              TimesIf(data.potassium > 300, TimesIf(t >= 250 /\ t <= 350, one, 115), 110)
         [] OTHER -> one

\* pH factor
phModifier(data, m) ==
    IF data.ph >= 60 /\ data.ph <= 75 THEN Times(m, 115)
    ELSE IF data.ph < 55 \/ data.ph > 80 THEN Times(m, 70)
    ELSE m

baseYield == 100

\* cropName.toLowerCase() on a null label raises a TypeError
yieldThrows(cropName) == cropName = Null

calculateYield(data, cropName) ==
    LET modifier == phModifier(data, cropModifier(data, toLowerCase(cropName)))
    IN MathRound(baseYield * modifier.num, modifier.den)

baseProfitabilityMutant(crop) ==
    CASE crop = "rice" -> 75
      [] crop = "wheat" -> 70
      [] crop = "maize" -> 65
      [] crop = "cotton" -> 80
      [] OTHER -> 65
\* baseProfitability[...] || 60
baseProfitability(crop) ==
    CASE crop = "rice" -> 75
      [] crop = "wheat" -> 70
      [] crop = "maize" -> 65
      [] crop = "cotton" -> 80
      [] OTHER -> 60

calculateProfitabilityIndex(cropName, yieldPrediction) ==
    LET base == baseProfitability(toLowerCase(cropName))
    IN MathRound(base * yieldPrediction, 100)

----------------------------------------------------------------------------
(* CropPrediction.tsx: predictCrop *)

Max(a, b) == IF a >= b THEN a ELSE b
Min(a, b) == IF a <= b THEN a ELSE b

confidenceMutant(jitter) == Max(750, Min(980, 900 + jitter))
\* Math.max(75, Math.min(98, 88 + Math.random() * 10)), in tenths; jitter is
\* Math.random() * 10 in tenths, 0..99
confidence(jitter) == Max(750, Min(980, 880 + jitter))

\* The template strings, as (template, interpolated value) pairs
recommendationsOf(cropName, yieldPrediction, riskLevel, profitabilityIndex) ==
    << <<"is highly suitable for your soil conditions", Capitalize(cropName)>>,
       <<"Expected yield: % of optimal capacity", yieldPrediction>>,
       IF riskLevel = "high"
       THEN <<"Consider soil amendment before planting">>
       ELSE <<"Soil conditions are favorable">>,
       <<"Profitability index: /100", profitabilityIndex>> >>

\* The try block of predictCrop throws: calculateYield on a null label
predictCropThrows(data, res) == yieldThrows(predictCropWithML(data, res))

predictionOfMutant(data, res, jitter) ==
    LET cropName == predictCropWithML(data, res)
        riskLevel == calculateRiskLevel(InitialSoilData)
        yieldPrediction == calculateYield(data, cropName)
        confidenceScore == confidence(jitter)
        profitabilityIndex == calculateProfitabilityIndex(cropName, yieldPrediction)
    IN [cropName |-> Capitalize(cropName),
        yieldPrediction |-> yieldPrediction,
        riskLevel |-> riskLevel,
        confidenceScore |-> confidenceScore,
        recommendations |->
            recommendationsOf(cropName, yieldPrediction, riskLevel, profitabilityIndex),
        profitabilityIndex |-> profitabilityIndex]
\* The object handed to setPrediction
predictionOf(data, res, jitter) ==
    LET cropName == predictCropWithML(data, res)
        riskLevel == calculateRiskLevel(data)
        yieldPrediction == calculateYield(data, cropName)
        confidenceScore == confidence(jitter)
        profitabilityIndex == calculateProfitabilityIndex(cropName, yieldPrediction)
    IN [cropName |-> Capitalize(cropName),
        yieldPrediction |-> yieldPrediction,
        riskLevel |-> riskLevel,
        confidenceScore |-> confidenceScore,
        recommendations |->
            recommendationsOf(cropName, yieldPrediction, riskLevel, profitabilityIndex),
        profitabilityIndex |-> profitabilityIndex]

----------------------------------------------------------------------------
(* parseFloat(value) || 0 *)

DigitChars == {"0", "1", "2", "3", "4", "5", "6", "7", "8", "9"}

DigitValue(c) ==
    CASE c = "0" -> 0 [] c = "1" -> 1 [] c = "2" -> 2 [] c = "3" -> 3 [] c = "4" -> 4
      [] c = "5" -> 5 [] c = "6" -> 6 [] c = "7" -> 7 [] c = "8" -> 8 [] c = "9" -> 9

\* Number of leading characters of s, from position i, that are in set
RECURSIVE Run(_, _, _)
Run(s, i, set) == IF i <= Len(s) /\ s[i] \in set THEN 1 + Run(s, i + 1, set) ELSE 0

\* Value of the digits s[i..j], most significant first
RECURSIVE DigitsValue(_, _, _)
DigitsValue(s, i, j) ==
    IF j < i THEN 0 ELSE 10 * DigitsValue(s, i, j - 1) + DigitValue(s[j])

\* parseFloat: leading white space, an optional sign, digits, an optional
\* fraction; whatever follows is ignored; no digit at all gives NaN.  The value
\* is in tenths: of the fraction its first digit counts (the texts of the model
\* carry at most one).
parseFloat(text) ==
    LET ws == Run(text, 1, {" "})
        signed == ws + 1 <= Len(text) /\ text[ws + 1] \in {"-", "+"}
        b == ws + (IF signed THEN 1 ELSE 0) + 1
        nInt == Run(text, b, DigitChars)
        dot == b + nInt <= Len(text) /\ text[b + nInt] = "."
        nFrac == IF dot THEN Run(text, b + nInt + 1, DigitChars) ELSE 0
        mag == 10 * DigitsValue(text, b, b + nInt - 1) +
               (IF nFrac > 0 THEN DigitValue(text[b + nInt + 1]) ELSE 0)
    IN IF nInt + nFrac = 0 THEN [nan |-> TRUE, val |-> 0]
       ELSE [nan |-> FALSE,
             val |-> IF signed /\ text[ws + 1] = "-" THEN -mag ELSE mag]

OrZeroMutant(x) == IF x.nan THEN 10 ELSE x.val
\* x || 0 on a number: NaN and 0 are falsy
OrZero(x) == IF x.nan \/ x.val = 0 THEN 0 ELSE x.val

----------------------------------------------------------------------------
(* FertilizerRecommendation.tsx: generateRecommendations *)

\* One FertilizerRecommendation; applicationMethod, timing and benefits are
\* fixed texts per type and are left out
Rec(type, qty, unit, priority) ==
    [type |-> type, amount |-> [qty |-> qty, unit |-> unit], priority |-> priority]

PushIf(cond, rec) == IF cond THEN <<rec>> ELSE <<>>

nitrogenRecMutant(sd) ==
    PushIf(sd.nitrogen <= 400,
           Rec("Nitrogen Fertilizer (Urea)", MathRound((400 - sd.nitrogen) * 25, 100),
               "kg/hectare", IF sd.nitrogen < 250 THEN "high" ELSE "medium"))
nitrogenRec(sd) ==
    PushIf(sd.nitrogen < 400,
           Rec("Nitrogen Fertilizer (Urea)", MathRound((400 - sd.nitrogen) * 25, 100),
               "kg/hectare", IF sd.nitrogen < 250 THEN "high" ELSE "medium"))

phosphorusRec(sd) ==
    PushIf(sd.phosphorus < 300,
           Rec("Phosphorus Fertilizer (DAP)", MathRound((300 - sd.phosphorus) * 3, 10),
               "kg/hectare", IF sd.phosphorus < 150 THEN "high" ELSE "medium"))

potassiumRec(sd) ==
    PushIf(sd.potassium < 350,
           Rec("Potassium Fertilizer (MOP)", MathRound((350 - sd.potassium) * 2, 10),
               "kg/hectare", IF sd.potassium < 200 THEN "high" ELSE "medium"))

\* pH correction: if (ph < 6.0) lime else if (ph > 8.0) gypsum
phRec(sd) ==
    IF sd.ph < 60
    THEN <<Rec("Lime Application", MathRound((65 - sd.ph) * 500, 10), "kg/hectare", "high")>>
    ELSE IF sd.ph > 80
    THEN <<Rec("Gypsum Application", MathRound((sd.ph - 75) * 300, 10), "kg/hectare",
               "medium")>>
    ELSE <<>>

organicRec(sd) ==
    PushIf(sd.organicMatter < 30, Rec("Organic Compost", 0, "2-3 tons/hectare", "medium"))

micronutrientRecMutant(sd) ==
    PushIf(Len(nitrogenRec(sd) \o phosphorusRec(sd) \o potassiumRec(sd)) < 3,
           Rec("Micronutrient Mix (Zn, Fe, Mn, B)", 0, "5-10 kg/hectare", "low"))
micronutrientRec(sd) ==
    <<Rec("Micronutrient Mix (Zn, Fe, Mn, B)", 0, "5-10 kg/hectare", "low")>>

\* recs after the last push
pushedRecs(sd) ==
    nitrogenRec(sd) \o phosphorusRec(sd) \o potassiumRec(sd) \o phRec(sd) \o
    organicRec(sd) \o micronutrientRec(sd)

priorityOrder(p) == CASE p = "high" -> 3 [] p = "medium" -> 2 [] p = "low" -> 1

\* The comparator: priorityOrder[b.priority] - priorityOrder[a.priority]
compare(a, b) == priorityOrder(b.priority) - priorityOrder(a.priority)

\* Array.prototype.sort is stable: x goes after every element it does not
\* strictly precede
RECURSIVE insertMutant(_, _)
insertMutant(sorted, x) ==
    IF sorted = <<>> THEN <<x>>
    ELSE IF compare(x, Head(sorted)) <= 0 THEN <<x>> \o sorted
    ELSE <<Head(sorted)>> \o insertMutant(Tail(sorted), x)
RECURSIVE insert(_, _)
insert(sorted, x) ==
    IF sorted = <<>> THEN <<x>>
    ELSE IF compare(x, Head(sorted)) < 0 THEN <<x>> \o sorted
    ELSE <<Head(sorted)>> \o insert(Tail(sorted), x)

RECURSIVE sort(_)
sort(recs) ==
    IF recs = <<>> THEN <<>>
    ELSE insert(sort(SubSeq(recs, 1, Len(recs) - 1)), recs[Len(recs)])

\* The list handed to setRecommendations
sortedRecs(sd) == sort(pushedRecs(sd))

----------------------------------------------------------------------------
(* JavaScript numbers as exact fractions.  den = 0 stands for the results of a  *)
(* division by zero: num > 0 is Infinity, num < 0 is -Infinity, num = 0 is NaN *)

RECURSIVE GCD(_, _)
GCD(a, b) == IF b = 0 THEN a ELSE GCD(b, a % b)

Sign(n) == IF n > 0 THEN 1 ELSE IF n < 0 THEN -1 ELSE 0

Norm(n, d) ==
    IF d = 0 THEN [num |-> Sign(n), den |-> 0]
    ELSE LET g == GCD(IF n < 0 THEN -n ELSE n, IF d < 0 THEN -d ELSE d)
         IN [num |-> Sign(d) * (n \div g), den |-> Sign(d) * (d \div g)]

Num(n) == [num |-> n, den |-> 1]
FromTenths(t) == Norm(t, 10)
IsFinite(x) == x.den # 0
IsNaN(x) == x.den = 0 /\ x.num = 0

\* a + b, a - b, a * b on finite numbers
FAdd(a, b) == Norm(a.num * b.den + b.num * a.den, a.den * b.den)
FSub(a, b) == Norm(a.num * b.den - b.num * a.den, a.den * b.den)
FMul(a, b) ==
    LET g1 == GCD(IF a.num < 0 THEN -a.num ELSE a.num, b.den)
        g2 == GCD(IF b.num < 0 THEN -b.num ELSE b.num, a.den)
    IN Norm((a.num \div g1) * (b.num \div g2), (a.den \div g2) * (b.den \div g1))

\* a / b on finite numbers: x / 0 is (-)Infinity, 0 / 0 is NaN
FDiv(a, b) ==
    IF b.num = 0 THEN [num |-> Sign(a.num), den |-> 0]
    ELSE FMul(a, Norm(b.den, b.num))

\* a < b, a > b: false when either side is NaN
FLess(a, b) ==
    IF IsNaN(a) \/ IsNaN(b) THEN FALSE
    ELSE IF ~IsFinite(a) THEN a.num < 0 /\ (IsFinite(b) \/ b.num > 0)
    ELSE IF ~IsFinite(b) THEN b.num > 0
    ELSE a.num * b.den < b.num * a.den
FGreater(a, b) == FLess(b, a)

\* Number.prototype.toFixed(1), as the number its text denotes: the nearest
\* tenth, a tie away from zero; "Infinity" and "NaN" for the non-finite
toFixed1(x) ==
    IF ~IsFinite(x) THEN x
    ELSE LET mag == MathRound((IF x.num < 0 THEN -x.num ELSE x.num) * 10, x.den)
         IN Norm(Sign(x.num) * mag, 10)

----------------------------------------------------------------------------
(* ProfitCalculator.tsx: calculateProfit *)

\* useState<CropInputs>({...}) initial value, numbers in tenths
InitialInputs ==
    [cropType |-> "wheat", areaInAcres |-> 10, expectedYield |-> 200,
     sellingPrice |-> 25000, seedCost |-> 30000, fertilizerCost |-> 80000,
     laborCost |-> 120000, irrigationCost |-> 50000, otherCosts |-> 20000]

ProfitNumberFields ==
    {"areaInAcres", "expectedYield", "sellingPrice", "seedCost", "fertilizerCost",
     "laborCost", "irrigationCost", "otherCosts"}

\* the <option> values of the crop select
CropOptions == {"wheat", "rice", "maize", "cotton"}

\* defaults[value]: <<>> when value is not a key; numbers in tenths
cropDefaults(value) ==
    CASE value = "wheat" -> <<[yield |-> 200, price |-> 25000]>>
      [] value = "rice" -> <<[yield |-> 250, price |-> 22000]>>
      [] value = "maize" -> <<[yield |-> 300, price |-> 20000]>>
      [] value = "cotton" -> <<[yield |-> 80, price |-> 60000]>>
      [] OTHER -> <<>>

\* the two setInputs updaters of handleCropTypeChange, one after the other
withCropType(inputs, value) ==
    LET first == [inputs EXCEPT !.cropType = value]
    IN IF cropDefaults(value) # <<>>
       THEN [first EXCEPT !.expectedYield = cropDefaults(value)[1].yield,
                          !.sellingPrice = cropDefaults(value)[1].price]
       ELSE first

\* The fields of the fertilizer form that handleInputChange parses
FertNumberFields == {"nitrogen", "phosphorus", "potassium", "ph", "organicMatter"}

riskAssessmentOfMutant(profitMargin) ==
    IF FLess(profitMargin, Num(10)) THEN "high"
    ELSE IF FLess(profitMargin, Num(26)) THEN "medium"
    ELSE "low"
\* let riskAssessment = 'low'; if (profitMargin < 10) ... else if (profitMargin < 25) ...
riskAssessmentOf(profitMargin) ==
    IF FLess(profitMargin, Num(10)) THEN "high"
    ELSE IF FLess(profitMargin, Num(25)) THEN "medium"
    ELSE "low"

LossMessage == "Current projection shows losses. Consider cost optimization or crop change."
LowMarginMessage == "Low profit margins detected. Focus on reducing input costs."
GoodMarginMessage == "Good profit potential identified for this crop selection."
RoiMessage == "Consider crops with higher market demand for better returns."
LaborMessage == "Labor costs are high. Consider mechanization opportunities."
FertilizerMessage == "Fertilizer costs are significant. Explore organic alternatives."
BreakEvenMessage == "Break-even yield: quintals per acre"

profitRecommendationsMutant(laborCost, fertilizerCost, totalCosts, profitMargin, roiPercentage, breakEvenPoint) ==
    << <<IF FLess(profitMargin, Num(0)) THEN LossMessage
         ELSE IF FLess(profitMargin, Num(15)) THEN LowMarginMessage
         ELSE GoodMarginMessage>> >>
    \o (IF FLess(roiPercentage, Num(20)) THEN << <<RoiMessage>> >> ELSE <<>>)
    \o (IF FGreater(laborCost, FMul(totalCosts, Norm(5, 10)))
        THEN << <<LaborMessage>> >> ELSE <<>>)
    \o (IF FGreater(fertilizerCost, FMul(totalCosts, Norm(3, 10)))
        THEN << <<FertilizerMessage>> >> ELSE <<>>)
    \o << <<BreakEvenMessage, toFixed1(breakEvenPoint)>> >>
\* The recommendations array; a message is a tuple, the break-even one carries
\* the number its text quotes
profitRecommendations(laborCost, fertilizerCost, totalCosts, profitMargin, roiPercentage, breakEvenPoint) ==
    << <<IF FLess(profitMargin, Num(0)) THEN LossMessage
         ELSE IF FLess(profitMargin, Num(15)) THEN LowMarginMessage
         ELSE GoodMarginMessage>> >>
    \o (IF FLess(roiPercentage, Num(20)) THEN << <<RoiMessage>> >> ELSE <<>>)
    \o (IF FGreater(laborCost, FMul(totalCosts, Norm(4, 10)))
        THEN << <<LaborMessage>> >> ELSE <<>>)
    \o (IF FGreater(fertilizerCost, FMul(totalCosts, Norm(3, 10)))
        THEN << <<FertilizerMessage>> >> ELSE <<>>)
    \o << <<BreakEvenMessage, toFixed1(breakEvenPoint)>> >>

\* inputs.sellingPrice > 0 ? totalCosts / (inputs.sellingPrice * inputs.areaInAcres) : 0
breakEvenPointOf(inputs, totalCosts) ==
    IF inputs.sellingPrice > 0
    THEN FDiv(totalCosts,
              FMul(FromTenths(inputs.sellingPrice), FromTenths(inputs.areaInAcres)))
    ELSE Num(0)

totalRevenueMutant(inputs) ==
    FMul(FromTenths(inputs.expectedYield), FromTenths(inputs.sellingPrice))
totalRevenueOf(inputs) ==
    FMul(FMul(FromTenths(inputs.areaInAcres), FromTenths(inputs.expectedYield)),
         FromTenths(inputs.sellingPrice))

\* The object handed to setAnalysis
calculateProfit(inputs) ==
    LET totalRevenue == totalRevenueOf(inputs)
        totalCosts ==
            FAdd(FAdd(FAdd(FAdd(FromTenths(inputs.seedCost),
                                FromTenths(inputs.fertilizerCost)),
                           FromTenths(inputs.laborCost)),
                      FromTenths(inputs.irrigationCost)),
                 FromTenths(inputs.otherCosts))
        grossProfit == FSub(totalRevenue, totalCosts)
        profitMargin ==
            IF FGreater(totalRevenue, Num(0))
            THEN FMul(FDiv(grossProfit, totalRevenue), Num(100)) ELSE Num(0)
        roiPercentage ==
            IF FGreater(totalCosts, Num(0))
            THEN FMul(FDiv(grossProfit, totalCosts), Num(100)) ELSE Num(0)
        breakEvenPoint == breakEvenPointOf(inputs, totalCosts)
        profitPerAcre ==
            IF inputs.areaInAcres > 0
            THEN FDiv(grossProfit, FromTenths(inputs.areaInAcres)) ELSE Num(0)
    IN [totalRevenue |-> totalRevenue,
        totalCosts |-> totalCosts,
        grossProfit |-> grossProfit,
        profitMargin |-> profitMargin,
        roiPercentage |-> roiPercentage,
        breakEvenPoint |-> breakEvenPoint,
        profitPerAcre |-> profitPerAcre,
        riskAssessment |-> riskAssessmentOf(profitMargin),
        recommendations |->
            profitRecommendations(FromTenths(inputs.laborCost),
                                  FromTenths(inputs.fertilizerCost), totalCosts,
                                  profitMargin, roiPercentage, breakEvenPoint)]

----------------------------------------------------------------------------
(* MarketTrends (part_000): analyzeProfitability *)

\* A row of market_prices: price_per_kg in tenths, price_date as a day number
PriceRow(crop_name, price_per_kg, price_date, market_location) ==
    [crop_name |-> crop_name, price_per_kg |-> price_per_kg,
     price_date |-> price_date, market_location |-> market_location]

\* Object.entries(cropGroups): the crop names in the order of their first row
RECURSIVE cropKeys(_, _, _)
cropKeys(prices, i, acc) ==
    IF i > Len(prices) THEN acc
    ELSE cropKeys(prices, i + 1,
             IF \E k \in 1..Len(acc) : acc[k] = prices[i].crop_name THEN acc
             ELSE Append(acc, prices[i].crop_name))

\* acc[price.crop_name].push(price)
cropGroup(prices, cropName) ==
    LET Of(price) == price.crop_name = cropName
    IN SelectSeq(prices, Of)

\* cropPrices.reduce((sum, p) => sum + p.price_per_kg, 0)
RECURSIVE sumPrices(_, _)
sumPrices(cropPrices, i) ==
    IF i > Len(cropPrices) THEN Num(0)
    ELSE FAdd(FromTenths(cropPrices[i].price_per_kg), sumPrices(cropPrices, i + 1))

\* new Date(b.price_date).getTime() - new Date(a.price_date).getTime()
compareDatesMutant(a, b) == a.price_date - b.price_date
compareDates(a, b) == b.price_date - a.price_date

\* cropPrices.sort(compareDates): Array.prototype.sort is stable
RECURSIVE insertByDate(_, _)
insertByDate(sorted, row) ==
    IF Len(sorted) = 0 THEN <<row>>
    ELSE IF compareDates(sorted[Len(sorted)], row) <= 0 THEN Append(sorted, row)
    ELSE Append(insertByDate(SubSeq(sorted, 1, Len(sorted) - 1), row),
                sorted[Len(sorted)])

RECURSIVE sortByDate(_, _)
sortByDate(cropPrices, n) ==
    IF n = 0 THEN <<>>
    ELSE insertByDate(sortByDate(cropPrices, n - 1), cropPrices[n])

\* Array.prototype.slice(1, 4)
slice14(s) == SubSeq(s, 2, Min(4, Len(s)))

trendOfMutant(latestPrice, olderAvg) ==
    IF ~FLess(latestPrice, FMul(olderAvg, Norm(105, 100))) THEN "up"
    ELSE IF FLess(latestPrice, FMul(olderAvg, Norm(95, 100))) THEN "down"
    ELSE "stable"
\* let trend = 'stable'; if (latestPrice > olderAvg * 1.05) ... else if (... * 0.95)
trendOf(latestPrice, olderAvg) ==
    IF FGreater(latestPrice, FMul(olderAvg, Norm(105, 100))) THEN "up"
    ELSE IF FLess(latestPrice, FMul(olderAvg, Norm(95, 100))) THEN "down"
    ELSE "stable"

\* Math.min, Math.max, Math.abs and Math.round on numbers: NaN stays NaN
MathMin(a, b) == IF IsNaN(a) \/ IsNaN(b) THEN Norm(0, 0) ELSE IF FLess(b, a) THEN b ELSE a
MathMax(a, b) == IF IsNaN(a) \/ IsNaN(b) THEN Norm(0, 0) ELSE IF FGreater(b, a) THEN b ELSE a
MathAbs(a) == [num |-> IF a.num < 0 THEN -a.num ELSE a.num, den |-> a.den]
MathRoundNum(a) == IF IsFinite(a) THEN Num(MathRound(a.num, a.den)) ELSE a

\* a - b and a * b where a may be the result of a division by zero
FSubJS(a, b) == IF IsFinite(b) THEN FSub(a, b) ELSE IF IsNaN(b) THEN b ELSE [b EXCEPT !.num = -b.num]
FMulJS(a, b) == IF IsFinite(a) THEN FMul(a, b) ELSE [a EXCEPT !.num = a.num * Sign(b.num)]

\* Math.max(0, 100 - (Math.abs(latestPrice - avgPrice) / avgPrice * 100))
stabilityScoreOf(latestPrice, avgPrice) ==
    MathMax(Num(0),
            FSubJS(Num(100),
                   FMulJS(FDiv(MathAbs(FSub(latestPrice, avgPrice)), avgPrice),
                          Num(100))))

\* The body of Object.entries(cropGroups).map(...) for one crop
analyzeCrop(cropName, cropPrices) ==
    LET avgPrice == FDiv(sumPrices(cropPrices, 1), Num(Len(cropPrices)))
        sortedPrices == sortByDate(cropPrices, Len(cropPrices))
        latestPrice ==
            IF Len(sortedPrices) = 0 THEN Num(0)
            ELSE FromTenths(sortedPrices[1].price_per_kg)
        older == slice14(sortedPrices)
        olderAvg == FDiv(sumPrices(older, 1), Num(Max(1, Len(older))))
        priceScore == MathMin(Num(100), FMul(FDiv(avgPrice, Num(10)), Num(20)))
        stabilityScore == stabilityScoreOf(latestPrice, avgPrice)
        profitabilityScore ==
            MathRoundNum(FDiv(FAdd(priceScore, stabilityScore), Num(2)))
    IN [cropName |-> cropName,
        avgPrice |-> FDiv(MathRoundNum(FMul(avgPrice, Num(100))), Num(100)),
        trend |-> trendOf(latestPrice, olderAvg),
        profitabilityScore |-> profitabilityScore,
        marketCount |->
            Cardinality({cropPrices[k].market_location : k \in 1..Len(cropPrices)})]

\* b.profitabilityScore - a.profitabilityScore; a NaN difference counts as 0
compareScores(a, b) ==
    IF IsNaN(a.profitabilityScore) \/ IsNaN(b.profitabilityScore) THEN 0
    ELSE IF FGreater(b.profitabilityScore, a.profitabilityScore) THEN 1
    ELSE IF FLess(b.profitabilityScore, a.profitabilityScore) THEN -1
    ELSE 0

\* .sort(compareScores), stable
RECURSIVE insertByScore(_, _)
insertByScore(sorted, item) ==
    IF Len(sorted) = 0 THEN <<item>>
    ELSE IF compareScores(sorted[Len(sorted)], item) <= 0 THEN Append(sorted, item)
    ELSE Append(insertByScore(SubSeq(sorted, 1, Len(sorted) - 1), item),
                sorted[Len(sorted)])

RECURSIVE sortByScore(_, _)
sortByScore(analysis, n) ==
    IF n = 0 THEN <<>>
    ELSE insertByScore(sortByScore(analysis, n - 1), analysis[n])

\* The list handed to setProfitability
analyzeProfitability(prices) ==
    LET keys == cropKeys(prices, 1, <<>>)
        analysis ==
            [k \in 1..Len(keys) |-> analyzeCrop(keys[k], cropGroup(prices, keys[k]))]
    IN sortByScore(analysis, Len(analysis))

----------------------------------------------------------------------------
(* Rule-based CropPrediction (part_001) and the FertilizerRecommendation it embeds *)

getPredictedCrop(data) ==
    IF data.nitrogen > 500 /\ data.phosphorus > 300 /\ data.potassium > 400 THEN "Wheat"
    ELSE IF data.temperature > 300 /\ data.humidity > 700 /\ data.rainfall > 1500 THEN "Rice"
    ELSE IF data.ph > 60 /\ data.ph < 70 /\ data.potassium > 350 THEN "Corn"
    ELSE IF data.nitrogen > 450 /\ data.ph > 65 THEN "Soybeans"
    ELSE IF data.temperature < 250 /\ data.nitrogen > 400 THEN "Barley"
    ELSE "Mixed Crops"

\* part_001 calculateRiskLevel
advRiskLevel(data) ==
    LET s == (IF data.ph < 55 \/ data.ph > 85 THEN 2 ELSE 0) +
             (IF data.temperature > 350 \/ data.temperature < 100 THEN 2 ELSE 0) +
             (IF data.humidity < 300 \/ data.humidity > 900 THEN 1 ELSE 0) +
             (IF data.rainfall < 500 \/ data.rainfall > 3000 THEN 1 ELSE 0)
    IN IF s >= 4 THEN "high" ELSE IF s >= 2 THEN "medium" ELSE "low"

\* part_001 calculateYield(data); avgNutrient > 40 is written on the sum
advYield(data) ==
    LET one == [num |-> 1, den |-> 1]
        m1 == IF data.temperature >= 200 /\ data.temperature <= 300 THEN Times(one, 120)
              ELSE IF data.temperature < 150 \/ data.temperature > 350 THEN Times(one, 80)
              ELSE one
        m2 == IF data.ph >= 60 /\ data.ph <= 70 THEN Times(m1, 115)
              ELSE IF data.ph < 55 \/ data.ph > 80 THEN Times(m1, 70)
              ELSE m1
        sum == data.nitrogen + data.phosphorus + data.potassium
        m3 == IF sum > 3 * 400 THEN Times(m2, 110)
              ELSE IF sum < 3 * 250 THEN Times(m2, 85)
              ELSE m2
    IN MathRound(baseYield * m3.num, m3.den)

\* Math.max(65, Math.min(95, 85 + Math.random() * 10)), in tenths
advConfidence(jitter) == Max(650, Min(950, 850 + jitter))

\* The object part_001 hands to setPrediction
advPredictionOf(data, jitter) ==
    LET crop == getPredictedCrop(data)
        riskLevel == advRiskLevel(data)
    IN [crop |-> crop,
        yieldPrediction |-> advYield(data),
        riskLevel |-> riskLevel,
        confidenceScore |-> advConfidence(jitter),
        recommendations |->
            << <<"Optimal growing conditions detected for", crop>>,
               <<"Maintain current nutrient levels">>,
               IF riskLevel = "high"
               THEN <<"Consider risk mitigation strategies">>
               ELSE <<"Continue current practices">> >>]

\* x || d on numbers
OrDefault(x, d) == IF x = 0 THEN d ELSE x

\* useState<FertilizerData>({...}) of a FertilizerRecommendation mounted with
\* props predictedCrop and soilConditions
initialFertilizerData(predictedCrop, soilConditions) ==
    [nitrogen |-> OrDefault(soilConditions.nitrogen, 300),
     phosphorus |-> OrDefault(soilConditions.phosphorus, 200),
     potassium |-> OrDefault(soilConditions.potassium, 250),
     ph |-> OrDefault(soilConditions.ph, 65),
     organicMatter |-> 35,
     cropType |-> toLowerCase(predictedCrop)]

\* A generateRecommendations call: the soilData its closure holds, whether the
\* effect (auto) or the button started it and, as history, the profile the
\* prediction on display was computed from
FertRun(data, auto, from) == [soilData |-> data, auto |-> auto, predictedFrom |-> from]

\* part_001 after its first render; no FertilizerRecommendation is mounted
InitAdvisor ==
    /\ advSoilData = InitialSoilData
    /\ advLoading = FALSE
    /\ advPrediction = <<>>
    /\ advRun = <<>>
    /\ advToasts = <<>>
    /\ advEdits = 0
    /\ advPredictedFrom = <<>>
    /\ fertSoilData = <<>>
    /\ fertLoading = FALSE
    /\ fertRecommendations = <<>>
    /\ fertRuns = <<>>
    /\ fertToasts = <<>>

\* MarketTrends after its first render and the effect that follows it:
\* loadMarketData has been called and its query is in flight
InitMarket ==
    /\ mktLoading = TRUE
    /\ marketPrices = <<>>
    /\ profitability = <<>>
    /\ mktRun = <<"fetch">>
    /\ mktToasts = <<>>
    /\ mktLoads = 1

----------------------------------------------------------------------------
(* The CropPrediction component as a state machine *)

\* Rows of crop_dataset used by the model (tenths)
Row(label, temperature, ph, rainfall) ==
    [crop_label |-> label, temperature |-> temperature, humidity |-> 650, ph |-> ph,
     rainfall |-> rainfall, nitrogen |-> 400, phosphorus |-> 250, potassium |-> 300]

RowRice == Row("rice", 200, 65, 1200)
RowWheat == Row("wheat", 300, 65, 1200)
RowMaize == Row("Maize", 250, 70, 1200)
RowCotton == Row("Cotton", 250, 65, 1250)
RowJute == Row("jute", 200, 65, 1200)
RowNoLabel == Row(Null, 250, 65, 1200)

\* Texts typed into a form field, as sequences of characters
Texts ==
    { <<>>, <<"1", "6", "0">>, <<"-", "5">>, <<"7", ".", "5">>,
      <<" ", "4", "0", "k", "g">> }

\* Answers of the crop_dataset query in the component run
ComponentFetches ==
    { FetchError, FetchNull, FetchRows(<<>>), FetchRows(<<RowRice>>),
      FetchRows(<<RowWheat, RowMaize>>), FetchRows(<<RowNoLabel, RowRice>>) }

\* Math.random() * 10, in tenths
Jitters == {0, 99}

InitCrop ==
    /\ soilData = InitialSoilData
    /\ loading = FALSE
    /\ prediction = <<>>
    /\ predictRun = <<>>
    /\ toasts = <<>>
    /\ edits = 0

InitCalls ==
    /\ fn = "none"
    /\ args = <<>>
    /\ ret = <<>>

\* ProfitCalculator after its first render
InitProfit ==
    /\ profInputs = InitialInputs
    /\ profLoading = FALSE
    /\ profAnalysis = <<>>
    /\ profRun = <<>>
    /\ profToasts = <<>>
    /\ profEdits = 0

\* WeatherForecast after its first render
InitWeather ==
    /\ wxLocation = <<>>
    /\ wxLoading = FALSE
    /\ wxForecast = <<>>
    /\ wxAlerts = <<>>
    /\ wxRun = <<>>
    /\ wxToasts = <<>>
    /\ wxEdits = 0

\* Index after its first render
InitTabs ==
    /\ activeTab = "home"
    /\ tabHistory = <<>>

InitComponents ==
    InitCrop /\ InitCalls /\ InitAdvisor /\ InitMarket /\ InitProfit /\ InitWeather /\ InitTabs

Init == InitComponents /\ page = "none"

handleInputChange(field, value) ==
    /\ edits < MaxEdits
    /\ edits' = edits + 1
    /\ soilData' = [soilData EXCEPT ![field] = OrZero(parseFloat(value))]
    /\ UNCHANGED <<loading, prediction, predictRun, toasts>>
    /\ UNCHANGED <<callVars, advisorVars, marketVars, profitVars, weatherVars, tabVars, page>>

\* onClick={predictCrop} disabled={loading}: up to the first await
predictCrop ==
    /\ ~loading
    /\ Len(toasts) < MaxToasts
    /\ loading' = TRUE
    /\ predictRun' = <<[pc |-> "timer", data |-> soilData]>>
    /\ UNCHANGED <<soilData, prediction, toasts, edits>>
    /\ UNCHANGED <<callVars, advisorVars, marketVars, profitVars, weatherVars, tabVars, page>>

\* The 2500 ms timer fires: predictCropWithML is entered and sends its query
predictCropTimer ==
    /\ predictRun # <<>>
    /\ predictRun[1].pc = "timer"
    /\ predictRun' = <<[predictRun[1] EXCEPT !.pc = "fetch"]>>
    /\ UNCHANGED <<soilData, loading, prediction, toasts, edits>>
    /\ UNCHANGED <<callVars, advisorVars, marketVars, profitVars, weatherVars, tabVars, page>>

predictCropSettledMutant(res, jitter) ==
    /\ predictRun # <<>>
    /\ predictRun[1].pc = "fetch"
    /\ IF predictCropThrows(predictRun[1].data, res)
       THEN /\ toasts' = Append(toasts, "error")
            /\ prediction' = <<>>
       ELSE /\ prediction' = <<predictionOf(predictRun[1].data, res, jitter)>>
            /\ toasts' = Append(toasts, "success")
    /\ loading' = FALSE
    /\ predictRun' = <<>>
    /\ UNCHANGED <<soilData, edits>>
    /\ UNCHANGED <<callVars, advisorVars, marketVars, profitVars, weatherVars, tabVars, page>>

\* The query settles with res; the rest of predictCrop runs to its end
predictCropSettled(res, jitter) ==
    /\ predictRun # <<>>
    /\ predictRun[1].pc = "fetch"
    /\ IF predictCropThrows(predictRun[1].data, res)
       THEN /\ toasts' = Append(toasts, "error")
            /\ UNCHANGED prediction
       ELSE /\ prediction' = <<predictionOf(predictRun[1].data, res, jitter)>>
            /\ toasts' = Append(toasts, "success")
    /\ loading' = FALSE
    /\ predictRun' = <<>>
    /\ UNCHANGED <<soilData, edits>>
    /\ UNCHANGED <<callVars, advisorVars, marketVars, profitVars, weatherVars, tabVars, page>>

Next ==
    \/ \E field \in SoilFields, value \in Texts : handleInputChange(field, value)
    \/ predictCrop
    \/ predictCropTimer
    \/ \E res \in ComponentFetches, jitter \in Jitters : predictCropSettled(res, jitter)

Spec == Init /\ [][Next]_vars

----------------------------------------------------------------------------
(* Direct calls of the functions, on inputs drawn from bounded sets: each     *)
(* behaviour makes one call                                                *)

MaxYieldIndex == 200    \* largest yieldPrediction handed to calculateProfitabilityIndex

Labels ==
    {"rice", "Rice", "RICE", "wheat", "Wheat", "maize", "MAIZE", "cotton", "Cotton",
     "jute", "Jute"}

\* Non-empty row lists of at most MaxDataset rows
ClassifyRows == {RowRice, RowWheat, RowMaize, RowCotton, RowJute}
ClassifyDatasets == UNION {[1..k -> ClassifyRows] : k \in 1..MaxDataset}

\* Profiles around the rows: some are equally far from two of them
QueryProfiles ==
    [temperature : {200, 250, 300}, humidity : {650}, ph : {65, 70},
     rainfall : {1200, 1225}, nitrogen : {400}, phosphorus : {250}, potassium : {300}]

\* Profiles on both sides of every threshold of the rule cascade
FallbackProfiles ==
    [temperature : {300, 310}, humidity : {700, 710}, ph : {60, 61, 69, 70},
     rainfall : {1500, 1510}, nitrogen : {500, 510}, phosphorus : {300, 310},
     potassium : {350, 360, 400, 410}]

FailedFetches == {FetchError, FetchNull, FetchRows(<<>>)}

\* Profiles on both sides of every threshold of calculateRiskLevel
RiskProfiles ==
    [temperature : {90, 100, 350, 360}, humidity : {290, 300, 900, 910},
     ph : {54, 55, 85, 86}, rainfall : {490, 500, 3000, 3010},
     nitrogen : {0, 400}, phosphorus : {250, 600}, potassium : {300}]

\* Profiles on both sides of every threshold of calculateYield
YieldProfiles ==
    [temperature : {140, 150, 180, 200, 250, 260, 320, 350, 360},
     humidity : {600, 610}, ph : {54, 55, 59, 60, 75, 76, 80, 81},
     rainfall : {1500, 1510}, nitrogen : {400, 410}, phosphorus : {250, 260},
     potassium : {300, 310}]

\* Form states of FertilizerRecommendation on both sides of every threshold
FertilizerInputs ==
    [nitrogen : {200, 240, 250, 390, 400}, phosphorus : {100, 140, 150, 295, 300},
     potassium : {150, 190, 200, 345, 350}, ph : {50, 59, 60, 65, 80, 81},
     organicMatter : {20, 29, 30, 35}, cropType : {"wheat"}]

ClassifyCalls ==
    {[data |-> data, res |-> FetchRows(rows)] :
        data \in QueryProfiles, rows \in ClassifyDatasets}
    \cup [data : FallbackProfiles, res : FailedFetches]

Call_predictCropWithML ==
    /\ fn = "none"
    /\ \E call \in ClassifyCalls :
        /\ fn' = "predictCropWithML"
        /\ args' = call
        /\ ret' = predictCropWithML(call.data, call.res)
        /\ UNCHANGED <<cropVars, advisorVars, marketVars, profitVars, weatherVars, tabVars, page>>

\* predictCrop from the end of its timer on, the query answering res
Call_predictCrop ==
    /\ fn = "none"
    /\ \E data \in FallbackProfiles, jitter \in Jitters,
       res \in FailedFetches \cup {FetchRows(<<RowRice>>), FetchRows(<<RowNoLabel>>)} :
        /\ fn' = "predictCrop"
        /\ args' = [data |-> data, res |-> res, jitter |-> jitter]
        /\ ret' = IF predictCropThrows(data, res)
                  THEN [toast |-> "error", prediction |-> <<>>]
                  ELSE [toast |-> "success",
                        prediction |-> <<predictionOf(data, res, jitter)>>]
        /\ UNCHANGED <<cropVars, advisorVars, marketVars, profitVars, weatherVars, tabVars, page>>

Call_calculateRiskLevel ==
    /\ fn = "none"
    /\ \E data \in RiskProfiles :
        /\ fn' = "calculateRiskLevel"
        /\ args' = [data |-> data]
        /\ ret' = calculateRiskLevel(data)
        /\ UNCHANGED <<cropVars, advisorVars, marketVars, profitVars, weatherVars, tabVars, page>>

Call_calculateYield ==
    /\ fn = "none"
    /\ \E data \in YieldProfiles, cropName \in Labels :
        /\ fn' = "calculateYield"
        /\ args' = [data |-> data, cropName |-> cropName]
        /\ ret' = calculateYield(data, cropName)
        /\ UNCHANGED <<cropVars, advisorVars, marketVars, profitVars, weatherVars, tabVars, page>>

Call_calculateProfitabilityIndex ==
    /\ fn = "none"
    /\ \E cropName \in Labels, yieldPrediction \in 0..MaxYieldIndex :
        /\ fn' = "calculateProfitabilityIndex"
        /\ args' = [cropName |-> cropName, yieldPrediction |-> yieldPrediction]
        /\ ret' = calculateProfitabilityIndex(cropName, yieldPrediction)
        /\ UNCHANGED <<cropVars, advisorVars, marketVars, profitVars, weatherVars, tabVars, page>>

\* generateRecommendations from the end of its timer on, soilData being sd
Call_generateRecommendations ==
    /\ fn = "none"
    /\ \E sd \in FertilizerInputs :
        /\ fn' = "generateRecommendations"
        /\ args' = [soilData |-> sd]
        /\ ret' = sortedRecs(sd)
        /\ UNCHANGED <<cropVars, advisorVars, marketVars, profitVars, weatherVars, tabVars, page>>

\* Form states of ProfitCalculator (tenths): zero and non-zero area, yield and
\* price, prices on both sides of every profit-margin and ROI threshold, costs
\* on both sides of the labor and fertilizer shares
ProfitInputs ==
    [cropType : {"wheat"}, areaInAcres : {0, 10, 20}, expectedYield : {0, 200},
     sellingPrice : {0, 10000, 15000, 16000, 17000, 18000, 20000, 25000},
     seedCost : {0, 30000}, fertilizerCost : {0, 80000, 100000},
     laborCost : {0, 120000, 150000}, irrigationCost : {0, 50000},
     otherCosts : {0, 20000}]

\* calculateProfit from the end of its timer on, the form holding inputs
Call_calculateProfit ==
    /\ fn = "none"
    /\ \E inputs \in ProfitInputs :
        /\ fn' = "calculateProfit"
        /\ args' = [inputs |-> inputs]
        /\ ret' = calculateProfit(inputs)
        /\ UNCHANGED <<cropVars, advisorVars, marketVars, profitVars, weatherVars, tabVars, page>>

\* Rows of market_prices: two crops, equal and distinct dates, prices 5% and
\* 10% apart, prices of 0 and a price whose price score is capped at 100
PriceRecords ==
    {PriceRow("Rice", 220, 5, "Delhi"), PriceRow("Rice", 200, 4, "Mumbai"),
     PriceRow("Rice", 210, 5, "Mumbai"), PriceRow("Rice", 0, 6, "Delhi"),
     PriceRow("Wheat", 0, 2, "Delhi"), PriceRow("Wheat", 615, 4, "Delhi")}

PriceLists == UNION {[1..n -> PriceRecords] : n \in 0..MaxPrices}

\* analyzeProfitability(data || [])
Call_analyzeProfitability ==
    /\ fn = "none"
    /\ \E prices \in PriceLists :
        /\ fn' = "analyzeProfitability"
        /\ args' = [prices |-> prices]
        /\ ret' = analyzeProfitability(prices)
        /\ UNCHANGED <<cropVars, advisorVars, marketVars, profitVars, weatherVars, tabVars, page>>

\* part_001 predictCrop from the end of its timer on, the form holding data
Call_advPredictCrop ==
    /\ fn = "none"
    /\ \E data \in FallbackProfiles, jitter \in Jitters :
        /\ fn' = "advPredictCrop"
        /\ args' = [data |-> data, jitter |-> jitter]
        /\ ret' = advPredictionOf(data, jitter)
        /\ UNCHANGED <<cropVars, advisorVars, marketVars, profitVars, weatherVars, tabVars, page>>

\* The three forms with a handleInputChange
Forms == {"soil", "fertilizer", "profit"}

\* The fields of a form that its handleInputChange parses
NumberFields(form) ==
    CASE form = "soil" -> SoilFields
      [] form = "fertilizer" -> FertNumberFields
      [] form = "profit" -> ProfitNumberFields

\* States of the component of a form when a field is edited: the form as it
\* starts and after an earlier edit, with and without a stored result
FormStates(form) ==
    CASE form = "soil" ->
             [data : {InitialSoilData, [InitialSoilData EXCEPT !.rainfall = 0]},
              result : {<<>>, <<predictionOf(InitialSoilData, FetchRows(<<RowRice>>), 0)>>}]
      [] form = "fertilizer" ->
             [data : {initialFertilizerData("Rice", InitialSoilData),
                      [initialFertilizerData("Rice", InitialSoilData) EXCEPT !.nitrogen = 0]},
              result : {<<>>, <<sortedRecs(initialFertilizerData("Rice", InitialSoilData))>>}]
      [] form = "profit" ->
             [data : {InitialInputs, withCropType(InitialInputs, "cotton")},
              result : {<<>>, <<calculateProfit(InitialInputs)>>}]

\* handleInputChange(field, value) of a form on a numeric field: the form and
\* the stored result of the component after the call
Call_handleInputChange ==
    /\ fn = "none"
    /\ \E form \in Forms :
       \E state \in FormStates(form), field \in NumberFields(form), value \in Texts :
        /\ fn' = "handleInputChange"
        /\ args' = [form |-> form, state |-> state, field |-> field, value |-> value]
        /\ ret' = [data |-> [state.data EXCEPT ![field] = OrZero(parseFloat(value))],
                   result |-> state.result]
        /\ UNCHANGED <<cropVars, advisorVars, marketVars, profitVars, weatherVars, tabVars, page>>

NextCalls ==
    \/ Call_predictCropWithML
    \/ Call_predictCrop
    \/ Call_calculateRiskLevel
    \/ Call_calculateYield
    \/ Call_calculateProfitabilityIndex
    \/ Call_generateRecommendations
    \/ Call_calculateProfit
    \/ Call_analyzeProfitability
    \/ Call_advPredictCrop
    \/ Call_handleInputChange

SpecCalls == Init /\ [][NextCalls]_vars

----------------------------------------------------------------------------
(* The rule-based CropPrediction (part_001) with its embedded                 *)
(* FertilizerRecommendation as a state machine.  The child is mounted from    *)
(* the first render with a prediction on                                      *)

fertVars == <<fertSoilData, fertLoading, fertRecommendations, fertRuns, fertToasts>>

\* The effect of FertilizerRecommendation runs: generateRecommendations up to
\* its await, called from the render whose soilData state is data
effectRuns(data) ==
    /\ fertLoading' = TRUE
    /\ fertRuns' = Append(fertRuns, FertRun(data, TRUE, advPredictedFrom'[1]))

\* part_001 handleInputChange; the new soilData object reaches a mounted child
\* as a changed soilConditions prop, so its effect runs
advHandleInputChange(field, value) ==
    /\ advEdits < MaxEdits
    /\ advEdits' = advEdits + 1
    /\ advSoilData' = [advSoilData EXCEPT ![field] = OrZero(parseFloat(value))]
    /\ UNCHANGED <<advLoading, advPrediction, advRun, advToasts, advPredictedFrom>>
    /\ IF advPrediction # <<>>
       THEN effectRuns(fertSoilData[1])
       ELSE UNCHANGED <<fertLoading, fertRuns>>
    /\ UNCHANGED <<fertSoilData, fertRecommendations, fertToasts>>
    /\ UNCHANGED <<cropVars, callVars, marketVars, profitVars, weatherVars, tabVars, page>>

\* part_001 onClick={predictCrop} disabled={loading}: up to the await
advPredictCrop ==
    /\ ~advLoading
    /\ Len(advToasts) < MaxToasts
    /\ advLoading' = TRUE
    /\ advRun' = <<[data |-> advSoilData]>>
    /\ UNCHANGED <<advSoilData, advPrediction, advToasts, advEdits, advPredictedFrom>>
    /\ UNCHANGED fertVars
    /\ UNCHANGED <<cropVars, callVars, marketVars, profitVars, weatherVars, tabVars, page>>

\* The 2000 ms timer fires: the rest of predictCrop, and the render after it.
\* The first prediction mounts the child, whose effect runs; a later one runs
\* the effect only if the predictedCrop prop changed
advPredictCropTimer(jitter) ==
    /\ advRun # <<>>
    /\ LET p == advPredictionOf(advRun[1].data, jitter)
       IN /\ advPrediction' = <<p>>
          /\ advPredictedFrom' = <<advRun[1].data>>
          /\ IF advPrediction = <<>>
             THEN /\ fertSoilData' = <<initialFertilizerData(p.crop, advSoilData)>>
                  /\ effectRuns(fertSoilData'[1])
             ELSE /\ UNCHANGED fertSoilData
                  /\ IF p.crop # advPrediction[1].crop
                     THEN effectRuns(fertSoilData[1])
                     ELSE UNCHANGED <<fertLoading, fertRuns>>
    /\ advToasts' = Append(advToasts, "success")
    /\ advLoading' = FALSE
    /\ advRun' = <<>>
    /\ UNCHANGED <<advSoilData, advEdits, fertRecommendations, fertToasts>>
    /\ UNCHANGED <<cropVars, callVars, marketVars, profitVars, weatherVars, tabVars, page>>

\* Texts typed into the crop type field
CropTypeTexts == {"rice", ""}

\* FertilizerRecommendation handleInputChange
fertHandleInputChange(field, value) ==
    /\ advPrediction # <<>>
    /\ advEdits < MaxEdits
    /\ advEdits' = advEdits + 1
    /\ fertSoilData' =
           <<[fertSoilData[1] EXCEPT ![field] =
                  IF field = "cropType" THEN value ELSE OrZero(parseFloat(value))]>>
    /\ UNCHANGED <<advSoilData, advLoading, advPrediction, advRun, advToasts,
                   advPredictedFrom>>
    /\ UNCHANGED <<fertLoading, fertRecommendations, fertRuns, fertToasts>>
    /\ UNCHANGED <<cropVars, callVars, marketVars, profitVars, weatherVars, tabVars, page>>

\* FertilizerRecommendation onClick={generateRecommendations} disabled={loading}:
\* up to the await
generateRecommendations ==
    /\ advPrediction # <<>>
    /\ ~fertLoading
    /\ Len(fertToasts) + Len(fertRuns) < MaxPlans
    /\ fertLoading' = TRUE
    /\ fertRuns' = Append(fertRuns, FertRun(fertSoilData[1], FALSE, advPredictedFrom[1]))
    /\ UNCHANGED <<advSoilData, advLoading, advPrediction, advRun, advToasts, advEdits,
                   advPredictedFrom>>
    /\ UNCHANGED <<fertSoilData, fertRecommendations, fertToasts>>
    /\ UNCHANGED <<cropVars, callVars, marketVars, profitVars, weatherVars, tabVars, page>>

\* The 1500 ms timer of the oldest generateRecommendations call fires: the rest
\* of the call, on the soilData of its closure
generateRecommendationsTimer ==
    /\ fertRuns # <<>>
    /\ fertRecommendations' = sortedRecs(fertRuns[1].soilData)
    /\ fertToasts' = Append(fertToasts, "success")
    /\ fertLoading' = FALSE
    /\ fertRuns' = Tail(fertRuns)
    /\ UNCHANGED <<advSoilData, advLoading, advPrediction, advRun, advToasts, advEdits,
                   advPredictedFrom>>
    /\ UNCHANGED fertSoilData
    /\ UNCHANGED <<cropVars, callVars, marketVars, profitVars, weatherVars, tabVars, page>>

NextAdvisor ==
    \/ \E field \in SoilFields, value \in Texts : advHandleInputChange(field, value)
    \/ advPredictCrop
    \/ \E jitter \in Jitters : advPredictCropTimer(jitter)
    \/ \E field \in FertNumberFields, value \in Texts : fertHandleInputChange(field, value)
    \/ \E value \in CropTypeTexts : fertHandleInputChange("cropType", value)
    \/ generateRecommendations
    \/ generateRecommendationsTimer

SpecAdvisor == Init /\ [][NextAdvisor]_vars

----------------------------------------------------------------------------
(* MarketTrends (part_000) as a state machine *)

\* Answers of the market_prices query with rows: the query orders them by
\* price_date, latest first
MarketAnswers ==
    {rows \in UNION {[1..n -> PriceRecords] : n \in 0..MaxAnswer} :
        \A i, j \in 1..Len(rows) : i < j => rows[i].price_date >= rows[j].price_date}

MarketFetches == {FetchError, FetchNull} \cup {FetchRows(rows) : rows \in MarketAnswers}

\* The Refresh button, onClick={loadMarketData} disabled={loading}: up to the await
loadMarketData ==
    /\ ~mktLoading
    /\ mktLoads < MaxLoads
    /\ mktLoads' = mktLoads + 1
    /\ mktLoading' = TRUE
    /\ mktRun' = <<"fetch">>
    /\ UNCHANGED <<marketPrices, profitability, mktToasts>>
    /\ UNCHANGED <<cropVars, callVars, advisorVars, profitVars, weatherVars, tabVars, page>>

\* The query settles with res; the rest of loadMarketData runs to its end
loadMarketDataSettled(res) ==
    /\ mktRun # <<>>
    /\ IF res.error
       THEN /\ mktToasts' = Append(mktToasts, "error")
            /\ UNCHANGED <<marketPrices, profitability>>
       ELSE /\ marketPrices' = res.data
            /\ profitability' = analyzeProfitability(res.data)
            /\ UNCHANGED mktToasts
    /\ mktLoading' = FALSE
    /\ mktRun' = <<>>
    /\ UNCHANGED mktLoads
    /\ UNCHANGED <<cropVars, callVars, advisorVars, profitVars, weatherVars, tabVars, page>>

NextMarket ==
    \/ loadMarketData
    \/ \E res \in MarketFetches : loadMarketDataSettled(res)

SpecMarket == Init /\ [][NextMarket]_vars

----------------------------------------------------------------------------
(* Properties *)

Abs(x) == IF x < 0 THEN -x ELSE x

\* r is an integer nearest to n / d (d > 0)
IsNearest(r, n, d) == 2 * Abs(r * d - n) <= d

\* 100 x the squared 7-dimensional Euclidean distance (fields in tenths)
RECURSIVE SumSq(_, _, _)
SumSq(q, r, fields) ==
    IF fields = {} THEN 0
    ELSE LET f == CHOOSE x \in fields : TRUE
         IN (q[f] - r[f]) * (q[f] - r[f]) + SumSq(q, r, fields \ {f})

Euclid2(q, r) == SumSq(q, r, SoilFields)

\* Index of the first record of rows at the minimum distance from q
FirstNearest(q, rows) ==
    CHOOSE i \in 1..Len(rows) :
        /\ \A j \in 1..Len(rows) : Euclid2(q, rows[i]) <= Euclid2(q, rows[j])
        /\ \A j \in 1..(i - 1) : Euclid2(q, rows[j]) > Euclid2(q, rows[i])

ClassifiedRows == fn = "predictCropWithML" /\ ~mlThrows(args.res)

\* C1: on a non-empty dataset predictCropWithML returns the label of a record
\* of the dataset, and no record of the dataset is strictly closer to the profile
\* than that record
C1_NearestNeighbour ==
    ClassifiedRows =>
        \E i \in 1..Len(args.res.data) :
            /\ args.res.data[i].crop_label = ret
            /\ \A j \in 1..Len(args.res.data) :
                   Euclid2(args.data, args.res.data[j]) >= Euclid2(args.data, args.res.data[i])

\* a call on three records where the nearest one is neither first nor last
C1_Witness ==
    /\ ClassifiedRows
    /\ Len(args.res.data) = 3
    /\ FirstNearest(args.data, args.res.data) = 2
    /\ ret = args.res.data[2].crop_label
    /\ ret # args.res.data[1].crop_label
    /\ ret # args.res.data[3].crop_label

\* C2: the label returned is that of the first record, in dataset order, among
\* the records at the minimum distance
C2_FirstOnTies ==
    ClassifiedRows => ret = args.res.data[FirstNearest(args.data, args.res.data)].crop_label

\* two records with different labels are both at the minimum distance
C2_Witness ==
    /\ ClassifiedRows
    /\ \E i, j \in 1..Len(args.res.data) :
          /\ i < j
          /\ i = FirstNearest(args.data, args.res.data)
          /\ Euclid2(args.data, args.res.data[i]) = Euclid2(args.data, args.res.data[j])
          /\ args.res.data[i].crop_label # args.res.data[j].crop_label
          /\ ret = args.res.data[i].crop_label

\* The rule cascade as the claim states it, in its order
Cascade(d) ==
    IF d.nitrogen > 500 /\ d.phosphorus > 300 /\ d.potassium > 400 THEN "wheat"
    ELSE IF d.temperature > 300 /\ d.humidity > 700 /\ d.rainfall > 1500 THEN "rice"
    ELSE IF 60 < d.ph /\ d.ph < 70 /\ d.potassium > 350 THEN "maize"
    ELSE "cotton"

\* C3: when the query reports an error, no data or an empty list,
\* predictCropWithML returns the result of the rule cascade, and predictCrop
\* ends with the success notification and a PredictionResult that has every
\* field, for the crop of the cascade
C3_Fallback ==
    /\ (fn = "predictCropWithML" /\ mlThrows(args.res)) =>
            /\ ret = Cascade(args.data)
            /\ ret \in {"wheat", "rice", "maize", "cotton"}
    /\ (fn = "predictCrop" /\ mlThrows(args.res)) =>
            /\ ret.toast = "success"
            /\ Len(ret.prediction) = 1
            /\ LET p == ret.prediction[1]
               IN /\ DOMAIN p = {"cropName", "yieldPrediction", "riskLevel",
                                 "confidenceScore", "recommendations",
                                 "profitabilityIndex"}
                  /\ p.cropName = Capitalize(Cascade(args.data))
                  /\ p.cropName \in {"Wheat", "Rice", "Maize", "Cotton"}
                  /\ p.riskLevel \in {"low", "medium", "high"}
                  /\ p.yieldPrediction \in Nat
                  /\ p.profitabilityIndex \in Nat
                  /\ p.confidenceScore \in 750..980
                  /\ Len(p.recommendations) = 4

\* an empty list, for a profile that passes the wheat rule and the rice rule
C3_Witness ==
    /\ fn = "predictCrop"
    /\ args.res = FetchRows(<<>>)
    /\ args.data.nitrogen > 500 /\ args.data.phosphorus > 300 /\ args.data.potassium > 400
    /\ args.data.temperature > 300 /\ args.data.humidity > 700 /\ args.data.rainfall > 1500
    /\ ret.prediction # <<>>
    /\ ret.prediction[1].cropName = "Wheat"

\* The risk rule as the claim states it; it reads pH, temperature, humidity and
\* rainfall only
RiskRule(d) ==
    LET score == (IF d.ph < 55 \/ d.ph > 85 THEN 2 ELSE 0)
               + (IF d.temperature < 100 \/ d.temperature > 350 THEN 2 ELSE 0)
               + (IF d.humidity < 300 \/ d.humidity > 900 THEN 1 ELSE 0)
               + (IF d.rainfall < 500 \/ d.rainfall > 3000 THEN 1 ELSE 0)
    IN IF score >= 4 THEN "high" ELSE IF score >= 2 THEN "medium" ELSE "low"

\* C4: calculateRiskLevel equals the reference rule (+2 pH outside [5.5, 8.5],
\* +2 temperature outside [10, 35], +1 humidity outside [30, 90], +1 rainfall
\* outside [50, 300]; high from 4, medium from 2, else low)
C4_RiskLevel == fn = "calculateRiskLevel" => ret = RiskRule(args.data)

\* only the rainfall term and one of the 2-point terms apply: medium
C4_Witness ==
    /\ fn = "calculateRiskLevel"
    /\ args.data.rainfall = 490
    /\ args.data.ph = 86
    /\ args.data.temperature = 350
    /\ args.data.humidity = 900
    /\ args.data.nitrogen = 0
    /\ ret = "medium"

\* The two bonuses of a crop, in hundredths, as the claim states them
YieldBonus1(d, crop) ==
    CASE crop = "rice" ->
           IF d.temperature >= 200 /\ d.temperature <= 350 /\ d.humidity > 600
           THEN 130 ELSE 100
      [] crop = "wheat" -> IF d.temperature >= 150 /\ d.temperature <= 250 THEN 125 ELSE 100
      [] crop = "maize" -> IF d.temperature >= 180 /\ d.temperature <= 320 THEN 120 ELSE 100
      [] crop = "cotton" -> IF d.temperature >= 250 /\ d.temperature <= 350 THEN 115 ELSE 100
      [] OTHER -> 100

YieldBonus2(d, crop) ==
    CASE crop = "rice" -> IF d.rainfall > 1500 THEN 120 ELSE 100
      [] crop = "wheat" -> IF d.nitrogen > 400 THEN 115 ELSE 100
      [] crop = "maize" -> IF d.phosphorus > 250 THEN 110 ELSE 100
      [] crop = "cotton" -> IF d.potassium > 300 THEN 110 ELSE 100
      [] OTHER -> 100

PhFactor(d) ==
    IF d.ph >= 60 /\ d.ph <= 75 THEN 115
    ELSE IF d.ph < 55 \/ d.ph > 80 THEN 70
    ELSE 100

\* C5: calculateYield is an integer nearest to 100 x m x p, m the product of the
\* crop's two independent bonuses (label compared without regard to case) and
\* p the pH modifier
C5_Yield ==
    fn = "calculateYield" =>
        LET crop == toLowerCase(args.cropName)
        IN IsNearest(ret,
                     YieldBonus1(args.data, crop) * YieldBonus2(args.data, crop) *
                     PhFactor(args.data),
                     10000)

\* an upper-case label, the second bonus without the first
C5_Witness ==
    /\ fn = "calculateYield"
    /\ args.cropName = "RICE"
    /\ args.data.humidity = 600
    /\ args.data.rainfall = 1510
    /\ args.data.ph = 76
    /\ ret = 120

ProfitBase(crop) ==
    CASE crop = "rice" -> 75
      [] crop = "wheat" -> 70
      [] crop = "maize" -> 65
      [] crop = "cotton" -> 80
      [] OTHER -> 60

C7_ProfitabilityRange ==
    prediction # <<>> => prediction[1].profitabilityIndex \in 0..100

PlanMade == fn = "generateRecommendations"

\* Positions of the plan that hold an entry of the given type
At(plan, type) == {i \in 1..Len(plan) : plan[i].type = type}

\* The rule fires exactly when cond holds, and its entry is the one stated:
\* an integer nearest to n / d kg/hectare, with the given priority
Rule(plan, type, cond, n, d, priority) ==
    /\ Cardinality(At(plan, type)) = (IF cond THEN 1 ELSE 0)
    /\ \A i \in At(plan, type) :
          /\ IsNearest(plan[i].amount.qty, n, d)
          /\ plan[i].amount.unit = "kg/hectare"
          /\ plan[i].priority = priority

\* C8: the plan holds exactly the entries of the independently evaluated rules
\* N<40 nitrogen round((40-N) x 2.5), high if N<25 else medium; P<30 phosphorus
\* round((30-P) x 3), high if P<15 else medium; K<35 potassium round((35-K) x 2),
\* high if K<20 else medium; pH<6.0 lime round((6.5-pH) x 500), high; pH>8.0
\* gypsum round((pH-7.5) x 300), medium; organicMatter<3.0 organic compost, a
\* fixed amount, medium; lime and gypsum never appear together
C8_FertilizerRules ==
    PlanMade =>
        LET sd == args.soilData
        IN /\ Rule(ret, "Nitrogen Fertilizer (Urea)", sd.nitrogen < 400,
                   (400 - sd.nitrogen) * 25, 100,
                   IF sd.nitrogen < 250 THEN "high" ELSE "medium")
           /\ Rule(ret, "Phosphorus Fertilizer (DAP)", sd.phosphorus < 300,
                   (300 - sd.phosphorus) * 3, 10,
                   IF sd.phosphorus < 150 THEN "high" ELSE "medium")
           /\ Rule(ret, "Potassium Fertilizer (MOP)", sd.potassium < 350,
                   (350 - sd.potassium) * 2, 10,
                   IF sd.potassium < 200 THEN "high" ELSE "medium")
           /\ Rule(ret, "Lime Application", sd.ph < 60, (65 - sd.ph) * 500, 10, "high")
           /\ Rule(ret, "Gypsum Application", sd.ph > 80, (sd.ph - 75) * 300, 10, "medium")
           /\ Cardinality(At(ret, "Organic Compost")) =
                  (IF sd.organicMatter < 30 THEN 1 ELSE 0)
           /\ \A i \in At(ret, "Organic Compost") :
                  /\ ret[i].amount = [qty |-> 0, unit |-> "2-3 tons/hectare"]
                  /\ ret[i].priority = "medium"
           /\ \A i \in 1..Len(ret) :
                  ret[i].type \in {"Nitrogen Fertilizer (Urea)", "Phosphorus Fertilizer (DAP)",
                                   "Potassium Fertilizer (MOP)", "Lime Application",
                                   "Gypsum Application", "Organic Compost",
                                   "Micronutrient Mix (Zn, Fe, Mn, B)"}
           /\ At(ret, "Lime Application") = {} \/ At(ret, "Gypsum Application") = {}

\* nitrogen just below its threshold, gypsum, and no other rule
C8_Witness ==
    /\ PlanMade
    /\ args.soilData.nitrogen = 390
    /\ args.soilData.phosphorus = 300
    /\ args.soilData.potassium = 350
    /\ args.soilData.ph = 81
    /\ args.soilData.organicMatter = 30
    /\ Len(ret) = 3
    /\ ret[1] = Rec("Nitrogen Fertilizer (Urea)", 3, "kg/hectare", "medium")
    /\ ret[2] = Rec("Gypsum Application", 180, "kg/hectare", "medium")

Rank(priority) == CASE priority = "high" -> 3 [] priority = "medium" -> 2 [] priority = "low" -> 1

\* Place of a type in rule-evaluation order
RuleOrder(type) ==
    CASE type = "Nitrogen Fertilizer (Urea)" -> 1
      [] type = "Phosphorus Fertilizer (DAP)" -> 2
      [] type = "Potassium Fertilizer (MOP)" -> 3
      [] type \in {"Lime Application", "Gypsum Application"} -> 4
      [] type = "Organic Compost" -> 5
      [] type = "Micronutrient Mix (Zn, Fe, Mn, B)" -> 6

\* C9: in the stored plan priorities never increase (high, then medium, then
\* low), and entries of equal priority are in rule-evaluation order
C9_PlanOrder ==
    PlanMade =>
        \A i, j \in 1..Len(ret) :
            i < j =>
                /\ Rank(ret[i].priority) >= Rank(ret[j].priority)
                /\ Rank(ret[i].priority) = Rank(ret[j].priority) =>
                       RuleOrder(ret[i].type) < RuleOrder(ret[j].type)

\* the sort moves entries: a medium nitrogen entry was pushed before high ones,
\* and two high entries keep their order
C9_Witness ==
    /\ PlanMade
    /\ args.soilData.nitrogen = 390
    /\ Len(ret) = 6
    /\ ret[1].type = "Phosphorus Fertilizer (DAP)"
    /\ ret[2].type = "Potassium Fertilizer (MOP)"
    /\ ret[3].type = "Lime Application"
    /\ ret[4].type = "Nitrogen Fertilizer (Urea)"
    /\ ret[5].type = "Organic Compost"

\* Number of rules the input triggers
Triggered(sd) ==
    (IF sd.nitrogen < 400 THEN 1 ELSE 0) + (IF sd.phosphorus < 300 THEN 1 ELSE 0) +
    (IF sd.potassium < 350 THEN 1 ELSE 0) + (IF sd.ph < 60 \/ sd.ph > 80 THEN 1 ELSE 0) +
    (IF sd.organicMatter < 30 THEN 1 ELSE 0)

ExampleInput ==
    [nitrogen |-> 200, phosphorus |-> 100, potassium |-> 150, ph |-> 50,
     organicMatter |-> 20, cropType |-> "wheat"]

\* C10: the plan holds the micronutrient entry exactly once, with priority low
\* and in the last position; it has 1 + (number of triggered rules) entries,
\* between 1 and 6; N=20, P=10, K=15, pH=5.0, organicMatter=2.0 gives nitrogen,
\* phosphorus, potassium, lime (high), organic (medium), micronutrient (low)
C10_Micronutrient ==
    PlanMade =>
        /\ At(ret, "Micronutrient Mix (Zn, Fe, Mn, B)") = {Len(ret)}
        /\ ret[Len(ret)].priority = "low"
        /\ Len(ret) = 1 + Triggered(args.soilData)
        /\ Len(ret) \in 1..6
        /\ args.soilData = ExampleInput =>
               /\ [i \in 1..Len(ret) |-> ret[i].type] =
                      <<"Nitrogen Fertilizer (Urea)", "Phosphorus Fertilizer (DAP)",
                        "Potassium Fertilizer (MOP)", "Lime Application",
                        "Organic Compost", "Micronutrient Mix (Zn, Fe, Mn, B)">>
               /\ [i \in 1..Len(ret) |-> ret[i].priority] =
                      <<"high", "high", "high", "high", "medium", "low">>

\* the plan of the example input
C10_Witness ==
    /\ PlanMade
    /\ args.soilData = ExampleInput
    /\ Len(ret) = 6
    /\ ret[6].type = "Micronutrient Mix (Zn, Fe, Mn, B)"

----------------------------------------------------------------------------
(* ProfitCalculator: properties of calculateProfit *)

ProfitMade == fn = "calculateProfit"

\* area * yield * price in thousandths, the five costs in tenths, and the
\* gross profit in thousandths, as integers
Revenue1000(i) == i.areaInAcres * i.expectedYield * i.sellingPrice
Costs10(i) ==
    i.seedCost + i.fertilizerCost + i.laborCost + i.irrigationCost + i.otherCosts
Gross1000(i) == Revenue1000(i) - 100 * Costs10(i)

\* C11: revenue = area * yield * price, costs = the sum of the five costs,
\* gross profit = revenue - costs, margin * revenue = 100 * gross profit when
\* revenue > 0 and margin = 0 otherwise, ROI * costs = 100 * gross profit when
\* costs > 0 and ROI = 0 otherwise; area 1, yield 20, price 2500 and costs
\* 30000 give 50000, 30000, 20000, margin 40, ROI 66.7 to one decimal, risk low
C11_ProfitFormulas ==
    ProfitMade =>
        LET i == args.inputs
        IN /\ ret.totalRevenue = Norm(Revenue1000(i), 1000)
           /\ ret.totalCosts = Norm(Costs10(i), 10)
           /\ ret.grossProfit = Norm(Gross1000(i), 1000)
           /\ IF Revenue1000(i) > 0
              THEN FMul(ret.profitMargin, ret.totalRevenue) =
                       FMul(Num(100), ret.grossProfit)
              ELSE ret.profitMargin = Num(0)
           /\ IF Costs10(i) > 0
              THEN FMul(ret.roiPercentage, ret.totalCosts) =
                       FMul(Num(100), ret.grossProfit)
              ELSE ret.roiPercentage = Num(0)
           /\ i = InitialInputs =>
                  /\ ret.totalRevenue = Num(50000)
                  /\ ret.totalCosts = Num(30000)
                  /\ ret.grossProfit = Num(20000)
                  /\ ret.profitMargin = Num(40)
                  /\ toFixed1(ret.roiPercentage) = Norm(667, 10)
                  /\ ret.riskAssessment = "low"

\* the analysis of a two-acre field with the other inputs of the initial form
C11_Witness ==
    /\ ProfitMade
    /\ args.inputs = [InitialInputs EXCEPT !.areaInAcres = 20]
    /\ ret.totalRevenue = Num(100000)
    /\ ret.profitMargin = Num(70)

\* C12: the four rates are finite numbers, and each one whose denominator
\* (revenue, costs, price * area, area) is zero is 0
C12_ZeroDenominators ==
    ProfitMade =>
        LET i == args.inputs
        IN /\ IsFinite(ret.profitMargin) /\ IsFinite(ret.roiPercentage)
           /\ IsFinite(ret.breakEvenPoint) /\ IsFinite(ret.profitPerAcre)
           /\ Revenue1000(i) = 0 => ret.profitMargin = Num(0)
           /\ Costs10(i) = 0 => ret.roiPercentage = Num(0)
           /\ i.sellingPrice * i.areaInAcres = 0 => ret.breakEvenPoint = Num(0)
           /\ i.areaInAcres = 0 => ret.profitPerAcre = Num(0)

\* C13: risk is high when margin < 10 (revenue 0 included), medium when
\* 10 <= margin < 25, low when margin >= 25; written on integers
C13_RiskAssessment ==
    ProfitMade =>
        LET i == args.inputs
            below10 == Revenue1000(i) <= 0 \/ 10 * Gross1000(i) < Revenue1000(i)
            below25 == Revenue1000(i) <= 0 \/ 4 * Gross1000(i) < Revenue1000(i)
        IN /\ ret.riskAssessment =
                  (IF below10 THEN "high" ELSE IF below25 THEN "medium" ELSE "low")
           /\ Revenue1000(i) = 0 => ret.riskAssessment = "high"

\* a margin of exactly 25 is reported as low risk
C13_Witness ==
    /\ ProfitMade
    /\ ret.profitMargin = Num(25)
    /\ ret.riskAssessment = "low"

\* The notes between the margin message and the break-even summary that apply
\* to inputs i, on integers
NoteApplies(i, note) ==
    CASE note = RoiMessage ->
             Costs10(i) = 0 \/ 5 * Gross1000(i) < 100 * Costs10(i)
      [] note = LaborMessage -> 10 * i.laborCost > 4 * Costs10(i)
      [] note = FertilizerMessage -> 10 * i.fertilizerCost > 3 * Costs10(i)

MarginMessage(i) ==
    IF Revenue1000(i) > 0 /\ Gross1000(i) < 0 THEN LossMessage
    ELSE IF Revenue1000(i) <= 0 \/ 20 * Gross1000(i) < 3 * Revenue1000(i)
         THEN LowMarginMessage
    ELSE GoodMarginMessage

\* C14: the list starts with the one margin message that applies (loss below
\* 0, low margin from 0 to below 15, good from 15), continues with the ROI,
\* labor and fertilizer notes that apply, in this order, and ends with the
\* break-even summary: 2 to 5 entries
C14_Recommendations ==
    ProfitMade =>
        LET i == args.inputs
            recs == ret.recommendations
            n == Len(recs)
            Applies(note) == NoteApplies(i, note)
        IN /\ n \in 2..5
           /\ recs[1] = <<MarginMessage(i)>>
           /\ recs[n] = <<BreakEvenMessage, toFixed1(ret.breakEvenPoint)>>
           /\ [k \in 1..(n - 2) |-> recs[k + 1][1]] =
                  SelectSeq(<<RoiMessage, LaborMessage, FertilizerMessage>>, Applies)

\* labor is 15000 of 33000 (above 40%), fertilizer 8000 (below 30%), margin 67
C14_Witness ==
    /\ ProfitMade
    /\ args.inputs = [InitialInputs EXCEPT !.laborCost = 150000]
    /\ ret.recommendations =
           << <<GoodMarginMessage>>, <<LaborMessage>>,
              <<BreakEvenMessage, Norm(132, 10)>> >>

----------------------------------------------------------------------------
(* CropPrediction: risk against pH *)

\* How far a pH lies outside the band 5.5 .. 8.5 (tenths)
PhDistance(ph) == IF ph < 55 THEN 55 - ph ELSE IF ph > 85 THEN ph - 85 ELSE 0

\* pH values a profile is moved to
PhMoves == {0, 30, 40, 50, 54, 55, 56, 70, 84, 85, 86, 90, 100, 140}

LevelRank(level) ==
    CASE level = "low" -> 0 [] level = "medium" -> 1 [] level = "high" -> 2

\* C20: replacing the pH of a profile by one at least as far outside 5.5 .. 8.5,
\* the other six inputs unchanged, lowers neither the risk score nor the level
C20_RiskMonotoneInPh ==
    fn = "calculateRiskLevel" =>
        \A ph \in PhMoves :
            PhDistance(ph) >= PhDistance(args.data.ph) =>
                LET moved == [args.data EXCEPT !.ph = ph]
                IN /\ riskScore(moved) >= riskScore(args.data)
                   /\ LevelRank(calculateRiskLevel(moved)) >= LevelRank(ret)

\* a profile on the edge of the band rated medium, which one tenth further out
\* is rated high
C20_Witness ==
    /\ fn = "calculateRiskLevel"
    /\ args.data.ph = 55
    /\ ret = "medium"
    /\ calculateRiskLevel([args.data EXCEPT !.ph = 54]) = "high"
    /\ calculateRiskLevel([args.data EXCEPT !.ph = 40]) = "high"

----------------------------------------------------------------------------
(* MarketTrends: properties of analyzeProfitability *)

AnalysisMade == fn = "analyzeProfitability"

\* The rows of one crop, in the order of the answer
RowsOf(prices, cropName) ==
    LET Of(row) == row.crop_name = cropName
    IN SelectSeq(prices, Of)

\* rows without the row at position i
Without(rows, i) == SubSeq(rows, 1, i - 1) \o SubSeq(rows, i + 1, Len(rows))

\* Most recent first: repeatedly the earliest-listed row of the latest date
RECURSIVE MostRecentFirst(_)
MostRecentFirst(rows) ==
    IF rows = <<>> THEN <<>>
    ELSE LET latest(i) == \A k \in 1..Len(rows) : rows[k].price_date <= rows[i].price_date
             i == CHOOSE i \in 1..Len(rows) :
                      latest(i) /\ \A k \in 1..(i - 1) : ~latest(k)
         IN <<rows[i]>> \o MostRecentFirst(Without(rows, i))

RECURSIVE SumOf(_)
SumOf(rows) == IF rows = <<>> THEN 0 ELSE rows[1].price_per_kg + SumOf(Tail(rows))

\* The trend of a crop's rows: the latest price against the mean of the next
\* up to three (0 when there is none), on integers
TrendRule(rows) ==
    LET ordered == MostRecentFirst(rows)
        latest == ordered[1].price_per_kg
        older == SubSeq(ordered, 2, Min(4, Len(ordered)))
        n == Max(1, Len(older))
    IN IF 100 * n * latest > 105 * SumOf(older) THEN "up"
       ELSE IF 100 * n * latest < 95 * SumOf(older) THEN "down"
       ELSE "stable"

\* Four rows of one crop: the latest price 22 is 10% above the mean 20 of the
\* three older ones
TrendExample ==
    <<PriceRow("Rice", 200, 4, "Mumbai"), PriceRow("Rice", 220, 5, "Delhi"),
      PriceRow("Rice", 200, 4, "Mumbai"), PriceRow("Rice", 200, 4, "Mumbai")>>

\* C17: the trend of every crop is up when the price of its most recent row
\* exceeds 1.05 times the mean of the next up to three rows, down when it is
\* below 0.95 times that mean, stable otherwise; the example gives up
C17_Trend ==
    AnalysisMade =>
        /\ \A k \in 1..Len(ret) :
               ret[k].trend = TrendRule(RowsOf(args.prices, ret[k].cropName))
        /\ args.prices = TrendExample => ret[1].trend = "up"

\* the analysis of the example
C17_Witness ==
    /\ AnalysisMade
    /\ args.prices = TrendExample
    /\ Len(ret) = 1
    /\ ret[1].trend = "up"

\* Twice the unrounded score of rows with price sum S > 0, as a fraction
\* ScoreNum / ScoreDen: min(100, avg / 10 * 20) + max(0, 100 - |latest - avg| / avg * 100)
ScoreDen(rows) == 5 * Len(rows) * SumOf(rows)
ScoreNum(rows) ==
    LET S == SumOf(rows)
        n == Len(rows)
        L == MostRecentFirst(rows)[1].price_per_kg
    IN Min(500 * n * S, S * S) + Max(0, 500 * n * S - 500 * n * Abs(n * L - S))

\* C18: every score is an integer from 0 to 100, a nearest integer to
\* (priceScore + stabilityScore) / 2, computed without a division by zero;
\* every crop name appears once; the ranking is sorted by score, highest first
C18_MarketScore ==
    AnalysisMade =>
        /\ \A k \in 1..Len(ret) :
               LET rows == RowsOf(args.prices, ret[k].cropName)
                   score == ret[k].profitabilityScore
               IN /\ IsFinite(score)
                  /\ score.den = 1
                  /\ score.num \in 0..100
                  /\ SumOf(rows) > 0 =>
                         IsNearest(score.num, ScoreNum(rows), 2 * ScoreDen(rows))
        /\ \A j, k \in 1..Len(ret) : j # k => ret[j].cropName # ret[k].cropName
        /\ {ret[k].cropName : k \in 1..Len(ret)} =
               {args.prices[k].crop_name : k \in 1..Len(args.prices)}
        /\ \A k \in 1..(Len(ret) - 1) :
               ~FLess(ret[k].profitabilityScore, ret[k + 1].profitabilityScore)

----------------------------------------------------------------------------
(* CropPrediction: the stored prediction is one consistent bundle *)

\* Labels a component run can classify to
BundleLabels == {"rice", "wheat", "maize", "cotton", "Maize", "Cotton", "jute"}

\* p is a complete PredictionResult computed from profile d and one label
Bundle(p, d) ==
    /\ DOMAIN p = {"cropName", "yieldPrediction", "riskLevel", "confidenceScore",
                   "recommendations", "profitabilityIndex"}
    /\ \E label \in BundleLabels :
           LET crop == toLowerCase(label)
           IN /\ p.cropName = Capitalize(label)
              /\ IsNearest(p.yieldPrediction,
                           YieldBonus1(d, crop) * YieldBonus2(d, crop) * PhFactor(d),
                           10000)
              /\ IsNearest(p.profitabilityIndex,
                           ProfitBase(crop) * p.yieldPrediction, 100)
    /\ p.riskLevel = RiskRule(d)
    /\ p.recommendations =
           << <<"is highly suitable for your soil conditions", p.cropName>>,
              <<"Expected yield: % of optimal capacity", p.yieldPrediction>>,
              IF p.riskLevel = "high"
              THEN <<"Consider soil amendment before planting">>
              ELSE <<"Soil conditions are favorable">>,
              <<"Profitability index: /100", p.profitabilityIndex>> >>

----------------------------------------------------------------------------
(* The fertilizer follow-on of a prediction *)

\* C15: every generateRecommendations call the effect started works on the
\* nitrogen, phosphorus, potassium and pH of the profile the prediction on
\* display was computed from
C15_FollowOnProfile ==
    \A k \in 1..Len(fertRuns) :
        fertRuns[k].auto =>
            \A f \in {"nitrogen", "phosphorus", "potassium", "ph"} :
                fertRuns[k].soilData[f] = fertRuns[k].predictedFrom[f]

----------------------------------------------------------------------------
(* MarketTrends: a failed load *)

\* C19: a loadMarketData call whose query fails leaves the ranking and the
\* price list empty and loading false
C19_FailedLoadEmpties ==
    [][(mktRun # <<>> /\ mktToasts' = Append(mktToasts, "error")) =>
           /\ profitability' = <<>>
           /\ marketPrices' = <<>>
           /\ mktLoading' = FALSE]_vars

----------------------------------------------------------------------------
(* The confidence score of both predictors *)

\* Math.random() * 10 in tenths
AllJitters == 0..99

\* a prediction without its confidence score
Unscored(p) == [p EXCEPT !.confidenceScore = 0]

\* C21: the confidence score is 88 plus the jitter, within 75 .. 98, in the
\* dataset-based predictor and 85 plus the jitter, within 65 .. 95, in the
\* rule-based one, for every jitter in [0, 10); every other field of the
\* prediction is the same for every jitter
C21_Confidence ==
    /\ (fn = "predictCrop" /\ ret.prediction # <<>>) =>
           /\ ret.prediction[1].confidenceScore = 880 + args.jitter
           /\ \A j \in AllJitters :
                  LET p == predictionOf(args.data, args.res, j)
                  IN /\ p.confidenceScore = 880 + j
                     /\ p.confidenceScore >= 750 /\ p.confidenceScore <= 980
                     /\ Unscored(p) = Unscored(ret.prediction[1])
    /\ fn = "advPredictCrop" =>
           /\ ret.confidenceScore = 850 + args.jitter
           /\ \A j \in AllJitters :
                  LET p == advPredictionOf(args.data, j)
                  IN /\ p.confidenceScore = 850 + j
                     /\ p.confidenceScore >= 650 /\ p.confidenceScore <= 950
                     /\ Unscored(p) = Unscored(ret)

\* a prediction of the dataset-based predictor with the largest jitter
C21_Witness ==
    /\ fn = "predictCrop"
    /\ ret.prediction # <<>>
    /\ args.jitter = 99
    /\ ret.prediction[1].confidenceScore = 979

----------------------------------------------------------------------------
(* ProfitCalculator: the loss message *)

\* C27: the first recommendation is the loss message exactly when the gross
\* profit is negative
C27_LossMessage ==
    ProfitMade =>
        (ret.recommendations[1] = <<LossMessage>> <=> Gross1000(args.inputs) < 0)

----------------------------------------------------------------------------
(* MarketTrends: the trend of a single row *)

\* C29: a crop with exactly one row is trending up when its price is positive
\* and stable when its price is 0, never down
C29_SingleRecordTrend ==
    AnalysisMade =>
        \A k \in 1..Len(ret) :
            LET rows == RowsOf(args.prices, ret[k].cropName)
            IN Len(rows) = 1 =>
                   /\ ret[k].trend = (IF rows[1].price_per_kg > 0 THEN "up" ELSE "stable")
                   /\ ret[k].trend # "down"

\* two crops of one row each, one at a positive price and one at price 0
C29_Witness ==
    /\ AnalysisMade
    /\ args.prices = <<PriceRow("Rice", 220, 5, "Delhi"), PriceRow("Wheat", 0, 2, "Delhi")>>
    /\ {<<ret[k].cropName, ret[k].trend>> : k \in 1..Len(ret)} =
           {<<"Rice", "up">>, <<"Wheat", "stable">>}

----------------------------------------------------------------------------
(* CropPrediction.tsx: a run that fails *)

\* the step is the end of a predictCrop run
PredictEnds == predictRun # <<>> /\ predictRun[1].pc = "fetch" /\ predictRun' = <<>>

\* C26: a predictCrop run that fails leaves the stored prediction as it was,
\* shows the error notification and not the success one, and ends with
\* loading false; the success notification comes only with a prediction
\* computed from an answer on which nothing throws
C26_FailureKeepsPrediction ==
    [][PredictEnds =>
          /\ loading' = FALSE
          /\ \/ /\ toasts' = Append(toasts, "error")
                /\ prediction' = prediction
                /\ \E res \in ComponentFetches : predictCropThrows(predictRun[1].data, res)
             \/ /\ toasts' = Append(toasts, "success")
                /\ \E res \in ComponentFetches, jitter \in Jitters :
                       /\ ~predictCropThrows(predictRun[1].data, res)
                       /\ prediction' = <<predictionOf(predictRun[1].data, res, jitter)>>]_vars

\* a failed run after a successful one: the prediction is still shown
C26_Witness ==
    /\ toasts = <<"success", "error">>
    /\ prediction # <<>>
    /\ ~loading
    /\ predictRun = <<>>

----------------------------------------------------------------------------
(* FertilizerRecommendation.tsx: runs in flight *)

\* C25: while a generateRecommendations run is in flight loading is true, and
\* at most one run is in flight
C25_OneRunInFlight == fertRuns # <<>> => (fertLoading /\ Len(fertRuns) <= 1)

----------------------------------------------------------------------------
(* ProfitCalculator.tsx as a state machine *)

\* Texts typed into the number fields of the profit form
ProfitTexts == {<<>>, <<"1", "6", "0">>}

profHandleInputChange(field, value) ==
    /\ profEdits < MaxEdits
    /\ profEdits' = profEdits + 1
    /\ profInputs' = [profInputs EXCEPT ![field] = OrZero(parseFloat(value))]
    /\ UNCHANGED <<profLoading, profAnalysis, profRun, profToasts>>
    /\ UNCHANGED <<cropVars, callVars, advisorVars, marketVars, weatherVars, tabVars, page>>

handleCropTypeChangeMutant(value) ==
    /\ value # profInputs.cropType
    /\ profInputs' = [withCropType(profInputs, value) EXCEPT !.areaInAcres = 10]
    /\ UNCHANGED <<profLoading, profAnalysis, profRun, profToasts, profEdits>>
    /\ UNCHANGED <<cropVars, callVars, advisorVars, marketVars, weatherVars, tabVars, page>>

\* onChange of the crop select: fired when another option is chosen
handleCropTypeChange(value) ==
    /\ value # profInputs.cropType
    /\ profInputs' = withCropType(profInputs, value)
    /\ UNCHANGED <<profLoading, profAnalysis, profRun, profToasts, profEdits>>
    /\ UNCHANGED <<cropVars, callVars, advisorVars, marketVars, weatherVars, tabVars, page>>

\* onClick={calculateProfit} disabled={loading}: up to the await; the rest of
\* the call reads the inputs of the render that was clicked
profCalculateProfit ==
    /\ ~profLoading
    /\ Len(profToasts) < MaxToasts
    /\ profLoading' = TRUE
    /\ profRun' = <<[inputs |-> profInputs]>>
    /\ UNCHANGED <<profInputs, profAnalysis, profToasts, profEdits>>
    /\ UNCHANGED <<cropVars, callVars, advisorVars, marketVars, weatherVars, tabVars, page>>

\* The 1000 ms timer fires: the rest of calculateProfit; nothing in the try
\* block throws
calculateProfitTimer ==
    /\ profRun # <<>>
    /\ profAnalysis' = <<calculateProfit(profRun[1].inputs)>>
    /\ profToasts' = Append(profToasts, "success")
    /\ profLoading' = FALSE
    /\ profRun' = <<>>
    /\ UNCHANGED <<profInputs, profEdits>>
    /\ UNCHANGED <<cropVars, callVars, advisorVars, marketVars, weatherVars, tabVars, page>>

NextProfit ==
    \/ \E field \in ProfitNumberFields, value \in ProfitTexts :
           profHandleInputChange(field, value)
    \/ \E value \in CropOptions : handleCropTypeChange(value)
    \/ profCalculateProfit
    \/ calculateProfitTimer

SpecProfit == Init /\ [][NextProfit]_vars

\* C30: choosing a crop sets cropType to it and, for wheat, rice, maize and
\* cotton, sets expectedYield and sellingPrice to 20 and 2500, 25 and 2200,
\* 30 and 2000, 8 and 6000, whatever was typed there; the area, the five costs
\* and the stored analysis stay as they were
C30_CropTypeChange ==
    [][profInputs'.cropType # profInputs.cropType =>
          LET c == profInputs'.cropType
              yield == CASE c = "wheat" -> 200 [] c = "rice" -> 250
                         [] c = "maize" -> 300 [] c = "cotton" -> 80
                         [] OTHER -> profInputs.expectedYield
              price == CASE c = "wheat" -> 25000 [] c = "rice" -> 22000
                         [] c = "maize" -> 20000 [] c = "cotton" -> 60000
                         [] OTHER -> profInputs.sellingPrice
          IN /\ profInputs'.expectedYield = yield
             /\ profInputs'.sellingPrice = price
             /\ \A f \in ProfitNumberFields \ {"expectedYield", "sellingPrice"} :
                    profInputs'[f] = profInputs[f]
             /\ profAnalysis' = profAnalysis]_vars

\* rice chosen after a yield of 160 was typed and analysed: the typed yield is
\* gone from the form and the analysis is still the one of the typed yield
C30_Witness ==
    /\ profInputs = [InitialInputs EXCEPT !.cropType = "rice", !.expectedYield = 250,
                                          !.sellingPrice = 22000]
    /\ profAnalysis = <<calculateProfit([InitialInputs EXCEPT !.expectedYield = 1600])>>
    /\ profEdits = 1

----------------------------------------------------------------------------
(* handleInputChange of the three forms *)

\* The number a typed text denotes to parseFloat, in tenths; <<>> when it
\* denotes none
Denotes(text) ==
    CASE text = <<"1", "6", "0">> -> <<1600>>
      [] text = <<"-", "5">> -> <<-50>>
      [] text = <<"7", ".", "5">> -> <<75>>
      [] text = <<" ", "4", "0", "k", "g">> -> <<400>>
      [] OTHER -> <<>>

\* C22: handleInputChange on a numeric field stores 0 for a text that denotes
\* no number and the number for a text that denotes one; every other field of
\* the form and the stored result stay as they were
C22_InputCoercion ==
    fn = "handleInputChange" =>
        /\ ret.data[args.field] =
               (IF Denotes(args.value) = <<>> THEN 0 ELSE Denotes(args.value)[1])
        /\ DOMAIN ret.data = DOMAIN args.state.data
        /\ \A g \in DOMAIN ret.data \ {args.field} : ret.data[g] = args.state.data[g]
        /\ ret.result = args.state.result

\* the area of the profit form emptied while an analysis is stored
C22_Witness ==
    /\ fn = "handleInputChange"
    /\ args.form = "profit"
    /\ args.field = "areaInAcres"
    /\ args.value = <<>>
    /\ args.state.data.areaInAcres = 10
    /\ args.state.result # <<>>
    /\ ret.data.areaInAcres = 0

\* The fields of a form that hold a quantity that cannot be negative
Quantities(form) ==
    CASE form = "soil" -> {"humidity", "rainfall", "nitrogen", "phosphorus", "potassium"}
      [] form = "fertilizer" -> {"nitrogen", "phosphorus", "potassium", "organicMatter"}
      [] form = "profit" -> ProfitNumberFields

\* C23: after handleInputChange every quantity of the form is at least 0
C23_NonNegative ==
    fn = "handleInputChange" =>
        \A f \in Quantities(args.form) : ret.data[f] >= 0

----------------------------------------------------------------------------
(* Navigation.tsx and HomePage.tsx: the page switch of Index *)

\* navItems of Navigation
NavIds == {"home", "prediction", "fertilizer", "market"}

\* the ids HomePage hands to onNavigate
HomeIds == {"prediction", "weather", "profit"}

renderContentMutant(tab) ==
    CASE tab = "home" -> "HomePage"
      [] tab = "prediction" -> "CropPrediction"
      [] tab = "weather" -> "WeatherForecast"
      [] tab = "profit" -> "ProfitCalculator"
      [] tab = "market" -> "MarketTrends"
      [] tab = "fertilizer" -> "FertilizerRecommendation"
      [] OTHER -> "HomePage"

\* renderContent of Index: the component rendered under the navigation bar
renderContent(tab) ==
    CASE tab = "home" -> "HomePage"
      [] tab = "prediction" -> "CropPrediction"
      [] tab = "weather" -> "WeatherForecast"
      [] tab = "profit" -> "ProfitCalculator"
      [] tab = "market" -> "MarketTrends"
      [] OTHER -> "HomePage"

\* handleTabChange(tab), called by the component via; the history keeps what
\* was selected, by whom and on which page
handleTabChange(tab, via) ==
    /\ Len(tabHistory) < MaxTabChanges
    /\ activeTab' = tab
    /\ tabHistory' =
           Append(tabHistory, [id |-> tab, via |-> via, on |-> renderContent(activeTab)])
    /\ UNCHANGED <<cropVars, callVars, advisorVars, marketVars, profitVars, weatherVars, page>>

\* A button of the navigation bar, which is rendered on every page
onTabChange(id) == handleTabChange(id, "Navigation")

\* A button of the home page, while the home page is rendered
onNavigate(id) ==
    /\ renderContent(activeTab) = "HomePage"
    /\ handleTabChange(id, "HomePage")

NextTabs ==
    \/ \E id \in NavIds : onTabChange(id)
    \/ \E id \in HomeIds : onNavigate(id)

SpecTabs == Init /\ [][NextTabs]_vars

\* C28: the page shown is determined by the id selected last, home at the
\* start: prediction, weather, profit and market show their own page, every
\* other id, fertilizer among them, shows the home page; the navigation bar
\* selects home, prediction, fertilizer and market, the home page selects
\* prediction, weather and profit, and weather and profit are selected from
\* the home page only
C28_TabSwitch ==
    /\ activeTab = (IF tabHistory = <<>> THEN "home" ELSE tabHistory[Len(tabHistory)].id)
    /\ activeTab = "prediction" => renderContent(activeTab) = "CropPrediction"
    /\ activeTab = "weather" => renderContent(activeTab) = "WeatherForecast"
    /\ activeTab = "profit" => renderContent(activeTab) = "ProfitCalculator"
    /\ activeTab = "market" => renderContent(activeTab) = "MarketTrends"
    /\ activeTab \notin {"prediction", "weather", "profit", "market"} =>
           renderContent(activeTab) = "HomePage"
    /\ \A k \in 1..Len(tabHistory) :
           /\ tabHistory[k].via = "Navigation" =>
                  tabHistory[k].id \in {"home", "prediction", "fertilizer", "market"}
           /\ tabHistory[k].via = "HomePage" =>
                  tabHistory[k].id \in {"prediction", "weather", "profit"}
           /\ tabHistory[k].id \in {"weather", "profit"} =>
                  tabHistory[k].via = "HomePage" /\ tabHistory[k].on = "HomePage"

\* fertilizer chosen in the navigation bar, then weather on the home page it
\* shows
C28_Witness ==
    /\ Len(tabHistory) = 2
    /\ tabHistory[1].id = "fertilizer"
    /\ tabHistory[2] = [id |-> "weather", via |-> "HomePage", on |-> "HomePage"]
    /\ renderContent(activeTab) = "WeatherForecast"

----------------------------------------------------------------------------
(* WeatherForecast.tsx as a state machine *)

\* One day of a forecast: rainfall in tenths of a mm, temperatures in degrees;
\* date, humidity, windSpeed and uvIndex are shown only and are left out
Day(condition, min, max, rainfall) ==
    [condition |-> condition, temperature |-> [min |-> min, max |-> max],
     rainfall |-> rainfall]

\* Seven days of the same weather
Week(day) == [i \in 1..7 |-> day]

\* Forecasts generateMockForecast can draw: on every day the maximum lies in
\* round(baseTemp) .. round(baseTemp + 8), the minimum in round(baseTemp - 5) ..
\* round(baseTemp), the rainfall in 5 .. 25 mm when rainy, 10 .. 60 mm when
\* stormy and 0 .. 2 mm otherwise
MockForecasts ==
    { Week(Day("sunny", 25, 30, 5)),
      Week(Day("stormy", 25, 33, 300)),
      [Week(Day("sunny", 25, 30, 5)) EXCEPT ![4] = Day("cloudy", 25, 36, 15)],
      [Week(Day("rainy", 25, 31, 80)) EXCEPT ![1] = Day("sunny", 25, 30, 0),
                                             ![2] = Day("sunny", 25, 30, 9)] }

\* forecast.filter(test).length
Count(forecast, Test(_)) == Cardinality({i \in 1..Len(forecast) : Test(forecast[i])})

\* One FarmingAlert: its type, the check that raised it and the number of days
\* its message names (0 when it names none); the recommendation is a fixed text
\* per check
Alert(type, check, days) == [type |-> type, check |-> check, days |-> days]

generateFarmingAlerts(forecast) ==
    LET heavyRain(day) == day.rainfall > 100
        hot(day) == day.temperature.max > 35
        good(day) == /\ day.temperature.max <= 30
                     /\ day.temperature.min >= 15
                     /\ day.rainfall < 50
                     /\ day.condition = "sunny"
        dry(day) == day.rainfall < 10
    IN PushIf(Count(forecast, heavyRain) > 0,
              Alert("warning", "heavyRain", Count(forecast, heavyRain))) \o
       PushIf(Count(forecast, hot) > 0, Alert("warning", "hot", 0)) \o
       PushIf(Count(forecast, good) >= 3, Alert("success", "good", Count(forecast, good))) \o
       PushIf(Count(forecast, dry) >= 5, Alert("info", "dry", 0))

\* Texts typed into the location field
Locations == {<<>>, <<" ", " ">>, <<"P", "u", "n", "e">>}

\* !location.trim(): nothing but white space
blank(location) == Run(location, 1, {" "}) = Len(location)

\* onChange of the location field
setLocation(value) ==
    /\ wxEdits < MaxEdits
    /\ wxEdits' = wxEdits + 1
    /\ wxLocation' = value
    /\ UNCHANGED <<wxLoading, wxForecast, wxAlerts, wxRun, wxToasts>>
    /\ UNCHANGED <<cropVars, callVars, advisorVars, marketVars, profitVars, tabVars, page>>

\* onClick={fetchForecast} disabled={loading}: the whole call when the location
\* is blank, else up to the await
fetchForecast ==
    /\ ~wxLoading
    /\ Len(wxToasts) < MaxToasts
    /\ IF blank(wxLocation)
       THEN /\ wxToasts' = Append(wxToasts, "Location Required")
            /\ UNCHANGED <<wxLoading, wxRun>>
       ELSE /\ wxLoading' = TRUE
            /\ wxRun' = <<[location |-> wxLocation]>>
            /\ UNCHANGED wxToasts
    /\ UNCHANGED <<wxLocation, wxForecast, wxAlerts, wxEdits>>
    /\ UNCHANGED <<cropVars, callVars, advisorVars, marketVars, profitVars, tabVars, page>>

fetchForecastTimerMutant(mock) ==
    /\ wxRun # <<>>
    /\ wxForecast' = mock
    /\ wxAlerts' = generateFarmingAlerts(mock)
    /\ wxToasts' = Append(wxToasts, "success")
    /\ wxLoading' = TRUE
    /\ wxRun' = <<>>
    /\ UNCHANGED <<wxLocation, wxEdits>>
    /\ UNCHANGED <<cropVars, callVars, advisorVars, marketVars, profitVars, tabVars, page>>

\* The 1500 ms timer fires: the rest of fetchForecast, generateMockForecast
\* drawing mock; nothing in the try block throws
fetchForecastTimer(mock) ==
    /\ wxRun # <<>>
    /\ wxForecast' = mock
    /\ wxAlerts' = generateFarmingAlerts(mock)
    /\ wxToasts' = Append(wxToasts, "success")
    /\ wxLoading' = FALSE
    /\ wxRun' = <<>>
    /\ UNCHANGED <<wxLocation, wxEdits>>
    /\ UNCHANGED <<cropVars, callVars, advisorVars, marketVars, profitVars, tabVars, page>>

----------------------------------------------------------------------------
(* The pages one at a time, with the timers firing and the queries answered *)

\* The pages that start computations: CropPrediction.tsx, the rule-based
\* CropPrediction of part_001 with its FertilizerRecommendation,
\* ProfitCalculator, MarketTrends and WeatherForecast
Pages ==
    {"CropPrediction", "RuleBasedCropPrediction", "ProfitCalculator", "MarketTrends",
     "WeatherForecast"}

\* Texts typed into the number fields of the page, and the field of each form
\* they are typed into: which run ends does not depend on the numbers
PageTexts == {<<>>, <<"1", "6", "0">>}
PageSoilFields == {"ph"}
PageFertFields == {"nitrogen"}
PageProfitFields == {"areaInAcres"}
PageCropOptions == {"wheat", "rice"}

\* Answers of the market_prices query on the page: an error, no rows, one row
\* and two rows of one crop
PageMarketFetches ==
    { FetchError, FetchNull, FetchRows(<<>>),
      FetchRows(<<PriceRow("Rice", 220, 5, "Delhi")>>),
      FetchRows(<<PriceRow("Rice", 220, 5, "Delhi"), PriceRow("Rice", 200, 4, "Delhi")>>) }

\* MarketTrends before it is mounted: its effect has not run
MarketNotMounted ==
    /\ mktLoading = FALSE
    /\ marketPrices = <<>>
    /\ profitability = <<>>
    /\ mktRun = <<>>
    /\ mktToasts = <<>>
    /\ mktLoads = 0

\* One page is open, in the state after its first render and effects
InitPages ==
    /\ page \in Pages
    /\ InitCrop /\ InitCalls /\ InitAdvisor /\ InitProfit /\ InitWeather /\ InitTabs
    /\ IF page = "MarketTrends" THEN InitMarket ELSE MarketNotMounted

NextPages ==
    \/ /\ page = "CropPrediction"
       /\ \/ \E field \in PageSoilFields, value \in PageTexts : handleInputChange(field, value)
          \/ predictCrop
          \/ predictCropTimer
          \/ \E res \in ComponentFetches, jitter \in Jitters : predictCropSettled(res, jitter)
    \/ /\ page = "RuleBasedCropPrediction"
       /\ \/ \E field \in PageSoilFields, value \in PageTexts : advHandleInputChange(field, value)
          \/ advPredictCrop
          \/ \E jitter \in Jitters : advPredictCropTimer(jitter)
          \/ \E field \in PageFertFields, value \in PageTexts :
                 fertHandleInputChange(field, value)
          \/ generateRecommendations
          \/ generateRecommendationsTimer
    \/ /\ page = "ProfitCalculator"
       /\ \/ \E field \in PageProfitFields, value \in PageTexts :
                 profHandleInputChange(field, value)
          \/ \E value \in PageCropOptions : handleCropTypeChange(value)
          \/ profCalculateProfit
          \/ calculateProfitTimer
    \/ /\ page = "MarketTrends"
       /\ \/ loadMarketData
          \/ \E res \in PageMarketFetches : loadMarketDataSettled(res)
    \/ /\ page = "WeatherForecast"
       /\ \/ \E value \in Locations : setLocation(value)
          \/ fetchForecast
          \/ \E mock \in MockForecasts : fetchForecastTimer(mock)

\* A timer that was set fires and a query that was sent is answered: weak
\* fairness of each step that ends a wait.  For generateRecommendations and
\* calculateProfit it is written out, []<>~ENABLED <<A>>_vars \/ []<><<A>>_vars,
\* with the guard of the step for ENABLED: the step is enabled exactly while
\* a run is in flight, and it always changes the state
TimersFire ==
    /\ WF_vars(predictCropTimer)
    /\ WF_vars(\E res \in ComponentFetches, jitter \in Jitters : predictCropSettled(res, jitter))
    /\ WF_vars(\E jitter \in Jitters : advPredictCropTimer(jitter))
    /\ []<>(fertRuns = <<>>) \/ []<><<generateRecommendationsTimer>>_vars
    /\ []<>(profRun = <<>>) \/ []<><<calculateProfitTimer>>_vars
    /\ WF_vars(\E res \in PageMarketFetches : loadMarketDataSettled(res))
    /\ WF_vars(\E mock \in MockForecasts : fetchForecastTimer(mock))

SpecPages == InitPages /\ [][NextPages]_vars /\ TimersFire

\* the notification shown last
LastToast(t) == IF t = <<>> THEN "none" ELSE t[Len(t)]

\* C24: every run of predictCrop, calculateProfit, generateRecommendations,
\* loadMarketData and fetchForecast that is in flight comes to its end: no run
\* is left in flight, loading is false, and a result is stored or an error
\* has been reported
C24_EveryRunEnds ==
    /\ (predictRun # <<>>)
           ~> (/\ predictRun = <<>> /\ ~loading
               /\ \/ LastToast(toasts) = "success" /\ prediction # <<>>
                  \/ LastToast(toasts) = "error")
    /\ (advRun # <<>>)
           ~> (advRun = <<>> /\ ~advLoading /\ LastToast(advToasts) = "success"
               /\ advPrediction # <<>>)
    /\ (fertRuns # <<>>)
           ~> (fertRuns = <<>> /\ ~fertLoading /\ LastToast(fertToasts) = "success"
               /\ fertRecommendations # <<>>)
    /\ (profRun # <<>>)
           ~> (profRun = <<>> /\ ~profLoading /\ LastToast(profToasts) = "success"
               /\ profAnalysis # <<>>)
    /\ (mktRun # <<>>) ~> (mktRun = <<>> /\ ~mktLoading)
    /\ (wxRun # <<>>)
           ~> (wxRun = <<>> /\ ~wxLoading /\ LastToast(wxToasts) = "success"
               /\ wxForecast # <<>>)

\* two runs of generateRecommendations started by the effect, both over
C24_Witness ==
    /\ page = "RuleBasedCropPrediction"
    /\ Len(fertToasts) = 2
    /\ fertRuns = <<>>
    /\ ~fertLoading
    /\ advEdits = 1

====
